---- MODULE Spec2Model ----
(***************************************************************************)
(* A model of the ghl-client library: the retry executor                   *)
(* (src/utils/retry.ts), the OAuth token lifecycle and the request         *)
(* dispatcher of GHLClient (src/client.ts).                                *)
(*                                                                         *)
(* Two specifications:                                                     *)
(*   SpecRetry  one call of utils/retry.ts withRetry(fn, config), with the *)
(*              configuration and the operation's outcomes drawn from      *)
(*              small sets;                                                *)
(*   Spec       one GHLClient shared by NTasks concurrently issued         *)
(*              client.withRetry(fn) calls, the token endpoint and the     *)
(*              clock being the environment.                               *)
(*                                                                         *)
(* Every action is one run of JavaScript from one suspension point (an     *)
(* await that really waits: the fetch, the sleep, the token exchange) to   *)
(* the next.                                                               *)
(***************************************************************************)
EXTENDS Integers, Sequences, FiniteSets, TLC

VARIABLES
    cfg,        \* the RetryConfig in force (client.retryConfig / withRetry's config)
    rx,         \* per task: the position and locals of its withRetry loop
    auth,       \* GHLClient.auth, the active credential
    oauthClient,            \* GHLClient.oauthClient is set
    tokenRefreshPromise,    \* GHLClient.tokenRefreshPromise: 0 or a refresh id
    refresh,    \* per refresh id: the state of that refreshToken() call
    now,        \* Date.now()
    task,       \* per task: the position and history of its client.withRetry call
    probe,      \* one call of the two expiry checks: its arguments and its answers
    locationId,     \* GHLClient.locationId, the default location
    pipelineCache,  \* OpportunitiesResource.pipelineCache: per location, the entry
    load,       \* per call of loadPipelinesCache or findStageByName: position and history
    cleared,    \* the last call of clearPipelineCache: its argument and how it ended
    userList,   \* one call of UsersResource.list: position and history
    logger,     \* GHLClient.logger: which of its methods throw
    auditLogger,    \* GHLClient.auditLogger: how its log() ends
    contactGet, \* one call of ContactsResource.get: position and history
    sent,       \* per task: the headers of the last request attempt of its call
    bufferAuditLogger \* a BufferAuditLogger, its onFlush calls and what they delivered

vars ==
    <<cfg, rx, auth, oauthClient, tokenRefreshPromise, refresh, now, task, probe,
      locationId, pipelineCache, load, cleared, userList, logger, auditLogger, contactGet, sent,
      bufferAuditLogger>>

clientVars == <<auth, oauthClient, tokenRefreshPromise, refresh, now, task, sent>>

\* the variables that the client and the retry loop leave alone
otherVars ==
    <<probe, locationId, pipelineCache, load, cleared, userList, logger, auditLogger,
      contactGet, bufferAuditLogger>>

\* the variables of the pipeline cache
cacheVars == <<locationId, pipelineCache, load, cleared>>

\* the variables of the users resource
usersVars == <<userList>>

\* the log sink, the audit sink and the contacts call that writes to them
sinkVars == <<logger, auditLogger, contactGet, bufferAuditLogger>>

(***************************************************************************)
(* Bounds of the model.                                                    *)
(***************************************************************************)
NTasks == 2
MaxRetriesBound == 4
ClientMaxRetries == 1
MaxRefreshes == 2
MaxTime == 1
MaxMinutes == 10
NLoads == 2
MaxHalfHours == 2
MaxEvents == 3
MaxFlushes == 3

Tasks == 1..NTasks
Loads == 1..NLoads
RefreshIds == 1..MaxRefreshes

(***************************************************************************)
(* Errors.  statusCode 0 stands for an undefined statusCode, retryAfter 0   *)
(* for an undefined retryAfter.                                            *)
(***************************************************************************)
NoError == [kind |-> "none", statusCode |-> 0, shouldRetry |-> FALSE, retryAfter |-> 0]

\* http.ts parseResponse, lines 245-264: the retryAfter of the error, in milliseconds;
\* header is the Retry-After header in seconds, 0 when the response has none
RetryAfter(status, header) ==
    LET isRateLimited == status = 429
        parsed == header * 1000
    IN IF ~isRateLimited THEN 0
       ELSE IF parsed = 0 THEN 1000
       ELSE parsed

\* http.ts parseResponse: the HttpClientError thrown for a non-2xx response
HttpClientError(status) ==
    LET isAuthError == status = 401 \/ status = 403
        isRateLimited == status = 429
    IN [kind |-> "http", statusCode |-> status,
        shouldRetry |-> ~isAuthError /\ (status >= 500 \/ isRateLimited),
        retryAfter |-> RetryAfter(status, 0)]

\* the HttpClientError of a 429 response with a Retry-After header
RateLimitError(header) == [HttpClientError(429) EXCEPT !.retryAfter = RetryAfter(429, header)]

\* http.ts handleError: a timeout (AbortError / TimeoutError)
TimeoutError == [kind |-> "timeout", statusCode |-> 0, shouldRetry |-> TRUE, retryAfter |-> 0]

\* http.ts handleError, line 306: any other Error the transport call rejects with
NetworkError == [kind |-> "network", statusCode |-> 0, shouldRetry |-> FALSE, retryAfter |-> 0]

\* a plain Error thrown by user code (the onRetry observer, onTokenRefresh)
PlainError(what) == [kind |-> what, statusCode |-> 0, shouldRetry |-> FALSE, retryAfter |-> 0]

ObserverError == PlainError("onRetry threw")

\* the outcomes of one invocation of the operation fn
OpOk == [ok |-> TRUE, err |-> NoError]
OpFail(e) == [ok |-> FALSE, err |-> e]
RetryOutcomes == {OpOk, OpFail(HttpClientError(500)), OpFail(HttpClientError(401))}

\* the outcomes of an operation that is one HTTP request: the statuses and Retry-After
\* headers a server may answer with, a timeout, a network failure
HttpStatuses == {401, 403, 404, 500, 503}
RetryAfterHeaders == {0, 2}
HttpErrors ==
    {HttpClientError(s) : s \in HttpStatuses}
    \cup {RateLimitError(h) : h \in RetryAfterHeaders}
    \cup {TimeoutError, NetworkError}
HttpOutcomes == {OpOk} \cup {OpFail(e) : e \in HttpErrors}

(***************************************************************************)
(* utils/retry.ts                                                          *)
(***************************************************************************)
RECURSIVE Pow(_, _)
Pow(b, e) == IF e = 0 THEN 1 ELSE b * Pow(b, e - 1)

Min(a, b) == IF a <= b THEN a ELSE b

calculateDelayOffByOne(attempt, initialDelay, exponentialBase, maxDelay) ==
    Min(initialDelay * Pow(exponentialBase, attempt), maxDelay)

calculateDelay(attempt, initialDelay, exponentialBase, maxDelay) ==
    LET delay == initialDelay * Pow(exponentialBase, attempt - 1)
    IN Min(delay, maxDelay)

\* a default predicate that retries every error status
DefaultShouldRetryAnyStatus(error) ==
    error.shouldRetry = TRUE \/ error.statusCode >= 400

\* DEFAULT_RETRY_CONFIG.shouldRetry
DefaultShouldRetry(error) ==
    error.shouldRetry = TRUE \/ error.statusCode >= 500

\* config.shouldRetry(error, attempt): the default predicate or one of three
\* caller-supplied predicates
shouldRetry(policy, error, attempt) ==
    CASE policy = "default" -> DefaultShouldRetry(error)
      [] policy = "always" -> TRUE
      [] policy = "never" -> FALSE
      [] policy = "firstOnly" -> attempt < 2

\* config.onRetry: whether its n-th call throws
onRetryThrows(observer, n) ==
    CASE observer = "safe" -> FALSE
      [] observer = "throwsOnce" -> n = 1
      [] observer = "throwsAlways" -> TRUE

DelayConfigs == {<<100, 2, 250>>, <<1000, 2, 10000>>, <<10, 3, 1000>>}

\* { ...DEFAULT_RETRY_CONFIG, ...config }
RetryConfig(maxRetries, d, policy, observer) ==
    [present |-> TRUE, maxRetries |-> maxRetries,
     initialDelay |-> d[1], exponentialBase |-> d[2], maxDelay |-> d[3],
     shouldRetry |-> policy, onRetry |-> observer]

DEFAULT_RETRY_CONFIG == RetryConfig(3, <<1000, 2, 10000>>, "default", "safe")

NoRetryConfig == [DEFAULT_RETRY_CONFIG EXCEPT !.present = FALSE]

RetryConfigs ==
    {RetryConfig(m, d, p, o) :
        m \in 0..MaxRetriesBound, d \in DelayConfigs,
        p \in {"default", "always", "never", "firstOnly"},
        o \in {"safe", "throwsOnce", "throwsAlways"}}

\* the loop of one withRetry call:
\*   rpc       "idle", "awaitFn" (fn() called, not settled), "sleeping",
\*             "returned", "threw"
\*   attempt   the loop counter
\*   lastError the local lastError
\*   delay     the delay being slept
\*   out       the value returned or the error thrown
\*   trace     what the call did so far, in order: <<"fn">>, <<"fnSettled", outcome>>,
\*             <<"shouldRetry", error, attempt, answer>>,
\*             <<"onRetry", error, retry, delay, threw>>, <<"sleep", delay>>
IdleLoop ==
    [rpc |-> "idle", attempt |-> 1, lastError |-> NoError, delay |-> 0,
     out |-> OpOk, trace |-> <<>>]

Count(trace, tag) == Cardinality({i \in 1..Len(trace) : trace[i][1] = tag})

\* lines 76-86, attempt = 1: the loop is entered and fn() is called
EnterLoop == [IdleLoop EXCEPT !.rpc = "awaitFn", !.trace = <<<<"fn">>>>]

RECURSIVE Catch(_, _, _)
RECURSIVE Iterate(_, _)

\* an iteration that sleeps first and reports the retry to onRetry afterwards
IterateSleepFirst(c, x) ==
    LET delay == calculateDelay(x.attempt - 1, c.initialDelay, c.exponentialBase, c.maxDelay)
        threw == onRetryThrows(c.onRetry, Count(x.trace, "onRetry") + 1)
        x1 == [x EXCEPT !.trace = Append(Append(@, <<"sleep", delay>>),
                                         <<"onRetry", x.lastError, x.attempt - 1, delay, threw>>)]
    IN IF threw
       THEN Catch(c, x1, ObserverError)
       ELSE [x1 EXCEPT !.rpc = "sleeping", !.delay = delay]

\* lines 79-83 for attempt > 1: the delay is computed, onRetry is called, the sleep
\* starts; an exception of onRetry lands in the catch block of line 87
Iterate(c, x) ==
    LET delay == calculateDelay(x.attempt - 1, c.initialDelay, c.exponentialBase, c.maxDelay)
        threw == onRetryThrows(c.onRetry, Count(x.trace, "onRetry") + 1)
        x1 == [x EXCEPT !.trace = Append(@, <<"onRetry", x.lastError, x.attempt - 1, delay, threw>>)]
    IN IF threw
       THEN Catch(c, x1, ObserverError)
       ELSE [x1 EXCEPT !.rpc = "sleeping", !.delay = delay,
                       !.trace = Append(@, <<"sleep", delay>>)]

\* a catch block that gives up one attempt early
CatchOneAttemptShort(c, x, error) ==
    LET x1 == [x EXCEPT !.lastError = error]
        isLastAttempt == x.attempt >= c.maxRetries
    IN IF isLastAttempt
       THEN [x1 EXCEPT !.rpc = "threw", !.out = OpFail(error)]
       ELSE LET answer == shouldRetry(c.shouldRetry, error, x.attempt)
                x2 == [x1 EXCEPT !.trace = Append(@, <<"shouldRetry", error, x.attempt, answer>>)]
            IN IF ~answer
               THEN [x2 EXCEPT !.rpc = "threw", !.out = OpFail(error)]
               ELSE Iterate(c, [x2 EXCEPT !.attempt = @ + 1])

\* lines 87-95: the catch block, and the next iteration up to its first await
Catch(c, x, error) ==
    LET x1 == [x EXCEPT !.lastError = error]
        isLastAttempt == x.attempt = c.maxRetries + 1
    IN IF isLastAttempt
       THEN [x1 EXCEPT !.rpc = "threw", !.out = OpFail(error)]
       ELSE LET answer == shouldRetry(c.shouldRetry, error, x.attempt)
                x2 == [x1 EXCEPT !.trace = Append(@, <<"shouldRetry", error, x.attempt, answer>>)]
            IN IF ~answer
               THEN [x2 EXCEPT !.rpc = "threw", !.out = OpFail(error)]
               ELSE Iterate(c, [x2 EXCEPT !.attempt = @ + 1])

\* line 86 and what follows it: fn() settles with outcome o
Settle(c, x, o) ==
    LET x1 == [x EXCEPT !.trace = Append(@, <<"fnSettled", o>>)]
    IN IF o.ok
       THEN [x1 EXCEPT !.rpc = "returned", !.out = o]
       ELSE Catch(c, x1, o.err)

\* line 82-86: the sleep is over and fn() is called
Wake(x) == [x EXCEPT !.rpc = "awaitFn", !.delay = 0, !.trace = Append(@, <<"fn">>)]

(***************************************************************************)
(* src/client.ts: the credential and the token refresh                     *)
(***************************************************************************)
NoToken == [k |-> "none", n |-> 0]
InitialAccessToken == [k |-> "access", n |-> 0]
InitialRefreshToken == [k |-> "refresh", n |-> 0]
\* the tokens the token endpoint issues in answer to exchange number id
IssuedAccessToken(id) == [k |-> "access", n |-> id]
IssuedRefreshToken(id) == [k |-> "refresh", n |-> id]

\* auth/types.ts ApiKeyAuth; accessToken holds the apiKey
ApiKeyAuth ==
    [type |-> "api-key", accessToken |-> InitialAccessToken, refreshToken |-> NoToken,
     expiresAt |-> 0, hasClient |-> FALSE, onTokenRefresh |-> "none"]

\* auth/types.ts OAuthAuth; expiresAt 0 stands for a missing expiresAt, hasClient for
\* clientId && clientSecret, onTokenRefresh is "none", "returns" or "throws"
OAuthAuth(refreshToken, expiresAt, hasClient, onTokenRefresh) ==
    [type |-> "oauth", accessToken |-> InitialAccessToken, refreshToken |-> refreshToken,
     expiresAt |-> expiresAt, hasClient |-> hasClient, onTokenRefresh |-> onTokenRefresh]

isOAuthAuth(a) == a.type = "oauth"

bufferMs == 5 * 60 * 1000

\* GHLClient.isTokenExpired
isTokenExpired(a, n) ==
    IF ~isOAuthAuth(a) \/ a.expiresAt = 0
    THEN FALSE
    ELSE n >= a.expiresAt - bufferMs

\* OAuthClient.isTokenExpired(expiresAt, bufferSeconds), n being Date.now()
OAuthClientIsTokenExpired(expiresAt, bufferSeconds, n) ==
    LET buffer == bufferSeconds * 1000
    IN n >= expiresAt - buffer

\* the default value of the parameter bufferSeconds
DefaultBufferSeconds == 300

\* the answers of the token endpoint: a failure, or a token pair with or without a
\* new refresh token, living expires_in seconds
TokenResponses ==
    {[ok |-> FALSE, rotate |-> FALSE, expires_in |-> 0]}
    \cup {[ok |-> TRUE, rotate |-> r, expires_in |-> e] : r \in BOOLEAN, e \in {300, 3600}}

\* one refreshToken() call:
\*   st      "unused", "exchanging" (the token exchange is in flight), "resolved",
\*           "rejected"
\*   origin  "ensure" (ensureValidToken, line 270) or "401" (withRetry, line 313)
\*   rt      the refresh token sent to the token endpoint
\*   err     the error the call rejected with
\*   resp    the answer of the token endpoint
\*   cb      the calls of onTokenRefresh made by this refreshToken() call: the token
\*           triples passed, in order
NoResponse == [ok |-> FALSE, rotate |-> FALSE, expires_in |-> 0]

UnusedRefresh ==
    [st |-> "unused", origin |-> "none", rt |-> NoToken, err |-> NoError,
     resp |-> NoResponse, cb |-> <<>>]

Settled(r) == r.st \in {"resolved", "rejected"}

\* GHLClient.refreshToken up to its await (lines 204-220)
refreshTokenStart(a, oc, origin) ==
    IF ~isOAuthAuth(a)
    THEN [UnusedRefresh EXCEPT !.st = "rejected", !.origin = origin,
                               !.err = PlainError("not using OAuth authentication")]
    ELSE IF ~oc
    THEN [UnusedRefresh EXCEPT !.st = "rejected", !.origin = origin,
                               !.err = PlainError("OAuth client not initialized")]
    ELSE IF a.refreshToken = NoToken
    THEN [UnusedRefresh EXCEPT !.st = "rejected", !.origin = origin,
                               !.err = PlainError("no refresh token available")]
    ELSE [UnusedRefresh EXCEPT !.st = "exchanging", !.origin = origin, !.rt = a.refreshToken]

\* a credential built without the fallback to the previous refresh token
newAuthWithoutFallback(a, id, resp, n) ==
    [type |-> "oauth",
     accessToken |-> IssuedAccessToken(id),
     refreshToken |-> IF resp.rotate THEN IssuedRefreshToken(id) ELSE NoToken,
     expiresAt |-> n + resp.expires_in * 1000,
     hasClient |-> a.hasClient,
     onTokenRefresh |-> a.onTokenRefresh]

\* lines 222-231: the credential built from the token response
newAuth(a, id, resp, n) ==
    [type |-> "oauth",
     accessToken |-> IssuedAccessToken(id),
     refreshToken |-> IF resp.rotate THEN IssuedRefreshToken(id) ELSE a.refreshToken,
     expiresAt |-> n + resp.expires_in * 1000,
     hasClient |-> a.hasClient,
     onTokenRefresh |-> a.onTokenRefresh]

\* lines 236-242: the refreshToken() call r, whose exchange id was answered with resp,
\* goes on after the swap, a being the credential now active: onTokenRefresh, if
\* there is one, is called with the new token triple
AfterSwap(r, id, resp, a) ==
    LET tokens == [accessToken |-> IssuedAccessToken(id),
                   refreshToken |-> IF resp.rotate THEN IssuedRefreshToken(id)
                                    ELSE a.refreshToken,
                   expiresAt |-> a.expiresAt]
        r1 == [r EXCEPT !.resp = resp]
    IN CASE a.onTokenRefresh = "none" -> [r1 EXCEPT !.st = "resolved"]
         [] a.onTokenRefresh = "returns" ->
                [r1 EXCEPT !.st = "resolved", !.cb = Append(@, tokens)]
         [] a.onTokenRefresh = "throws" ->
                [r1 EXCEPT !.st = "rejected", !.cb = Append(@, tokens),
                           !.err = PlainError("onTokenRefresh threw")]

FreeRefreshIds == {id \in RefreshIds : refresh[id].st = "unused"}
NextRefreshId == CHOOSE id \in FreeRefreshIds : \A other \in FreeRefreshIds : id <= other

\* the token a credential is used with
InstalledAccessToken == [k |-> "access", n |-> MaxRefreshes + 1]
InstalledRefreshToken == [k |-> "refresh", n |-> MaxRefreshes + 1]

\* lines 342-350: the api key or the access token of the credential
getAccessToken(a) == a.accessToken

\* lines 356-361
buildAuthHeaders(a) == [Authorization |-> <<"Bearer", getAccessToken(a)>>]

\* line 171: the headers the HTTP client is built with, from the first credential
defaultHeaders == buildAuthHeaders(ApiKeyAuth)

\* a merge in which the headers of the HTTP client win
MergeHeadersDefaultsLast(defaults, headers) ==
    [k \in (DOMAIN defaults) \cup (DOMAIN headers) |->
        IF k \in DOMAIN defaults THEN defaults[k] ELSE headers[k]]

\* http.ts lines 85-88: {...this.defaultHeaders, ...headers}
MergeHeaders(defaults, headers) ==
    [k \in (DOMAIN defaults) \cup (DOMAIN headers) |->
        IF k \in DOMAIN headers THEN headers[k] ELSE defaults[k]]

\* the headers of a request sent by a resource method while the credential is a: the
\* arrow function given to client.withRetry calls buildAuthHeaders() when it is invoked
RequestHeaders(a) == MergeHeaders(defaultHeaders, buildAuthHeaders(a))

\* no request sent yet
NoHeaders == [Authorization |-> <<"none", NoToken>>]

\* one client.withRetry(fn) call:
\*   pc       "idle", "ensureOwn" (line 272), "ensureWait" (line 266), "round" (lines
\*            304 and 317), "direct" (lines 306 and 319), "forcedWait" (line 313), "done"
\*   awaited  the refresh awaited inside ensureValidToken, 0 if none
\*   own      the refresh this call started inside ensureValidToken, 0 if none
\*   ensure   how ensureValidToken ended: "none" (not yet), "ok", "err"
\*   round    the executions of the operation begun (0, 1, 2)
\*   calls    the invocations of fn in the rounds that are over
\*   forced   the refreshToken() calls made from the catch block of line 307
\*   forcedId the refresh of line 313; forcedEnd how it ended ("none", "ok", "err")
\*   firstErr the error that ended round 1; capable: the credential was OAuth with an
\*            OAuth client and a refresh token then
\*   out      the result of the call
IdleTask ==
    [pc |-> "idle", awaited |-> 0, own |-> 0, ensure |-> "none", round |-> 0, calls |-> 0,
     forced |-> 0, forcedId |-> 0, forcedEnd |-> "none", firstErr |-> NoError,
     capable |-> FALSE, out |-> OpOk]

\* the invocations of fn made so far by a task tk whose withRetry loop is x
Invocations(tk, x) == tk.calls + Count(x.trace, "fn")

\* lines 303-306 and 316-319: the operation is executed through the retry executor if
\* a policy is configured, else directly; either way fn() is called at once
BeginRound(c, tk) ==
    IF c.present
    THEN [tk EXCEPT !.pc = "round", !.round = @ + 1]
    ELSE [tk EXCEPT !.pc = "direct", !.round = @ + 1, !.calls = @ + 1]

BeginLoop(c) == IF c.present THEN EnterLoop ELSE IdleLoop

\* a dispatcher that goes on to the operation whatever ensureValidToken did
AfterEnsureIgnoringFailure(c, tk, r) ==
    BeginRound(c, [tk EXCEPT !.ensure = IF r.st = "resolved" THEN "ok" ELSE "err"])

\* line 300: ensureValidToken() has settled, r being the refresh it awaited
AfterEnsure(c, tk, r) ==
    IF r.st = "resolved"
    THEN BeginRound(c, [tk EXCEPT !.ensure = "ok"])
    ELSE [tk EXCEPT !.ensure = "err", !.pc = "done", !.out = OpFail(r.err)]

\* a guard that never finds a refresh in flight
InFlightNever(handle) == FALSE

\* line 265: a refresh is in flight
InFlight(handle) == handle # 0

\* a finally block that clears the handle after a success only
ClearedHandleOnSuccessOnly(tk, r, handle) ==
    IF tk.pc = "ensureOwn" /\ r.st = "resolved" THEN 0 ELSE handle

\* lines 271-275: the caller that started the refresh clears the handle
ClearedHandle(tk, r, handle) ==
    IF tk.pc = "ensureOwn" THEN 0 ELSE handle

\* lines 313-323: the refresh of line 313 has settled
AfterForcedRefresh(c, tk, r) ==
    IF r.st = "resolved"
    THEN BeginRound(c, [tk EXCEPT !.forcedEnd = "ok"])
    ELSE [tk EXCEPT !.forcedEnd = "err", !.pc = "done", !.out = OpFail(r.err)]

(***************************************************************************)
(* The actions of the client.                                              *)
(***************************************************************************)
\* the request attempts task t makes in a step carry the headers built at that moment
Dispatch(t) ==
    sent' = [sent EXCEPT ![t] =
                IF task'[t].pc \in {"round", "direct"}
                   /\ Invocations(task'[t], rx'[t]) > Invocations(task[t], rx[t])
                THEN RequestHeaders(auth')
                ELSE @]

\* client.withRetry(fn) is called: ensureValidToken runs up to its first await
clientWithRetry(t) ==
    /\ task[t].pc = "idle"
    /\ rx[t].rpc = "idle"
    /\ IF t = 1 THEN TRUE ELSE task[t - 1].pc # "idle"
    /\ IF ~isOAuthAuth(auth) \/ ~isTokenExpired(auth, now)
       THEN /\ task' = [task EXCEPT ![t] = BeginRound(cfg, [@ EXCEPT !.ensure = "ok"])]
            /\ rx' = [rx EXCEPT ![t] = BeginLoop(cfg)]
            /\ UNCHANGED <<refresh, tokenRefreshPromise>>
       ELSE IF InFlight(tokenRefreshPromise)
       THEN /\ task' = [task EXCEPT ![t].pc = "ensureWait", ![t].awaited = tokenRefreshPromise]
            /\ UNCHANGED <<rx, refresh, tokenRefreshPromise>>
       ELSE /\ FreeRefreshIds # {}
            /\ refresh' = [refresh EXCEPT ![NextRefreshId] = refreshTokenStart(auth, oauthClient, "ensure")]
            /\ tokenRefreshPromise' = NextRefreshId
            /\ task' = [task EXCEPT ![t].pc = "ensureOwn", ![t].awaited = NextRefreshId,
                                     ![t].own = NextRefreshId]
            /\ UNCHANGED rx
    /\ UNCHANGED <<otherVars, cfg, auth, oauthClient, now>>
    /\ Dispatch(t)

\* the refresh awaited in ensureValidToken has settled: the caller resumes
ensureValidTokenResumes(t) ==
    /\ task[t].pc \in {"ensureOwn", "ensureWait"}
    /\ Settled(refresh[task[t].awaited])
    /\ tokenRefreshPromise' = ClearedHandle(task[t], refresh[task[t].awaited], tokenRefreshPromise)
    /\ task' = [task EXCEPT ![t] = AfterEnsure(cfg, @, refresh[task[t].awaited])]
    /\ rx' = [rx EXCEPT ![t] = IF task'[t].pc = "round" THEN EnterLoop ELSE @]
    /\ UNCHANGED <<otherVars, cfg, auth, oauthClient, refresh, now>>
    /\ Dispatch(t)

\* a catch block that refreshes after every 401, the one of the re-execution too
WantsForcedRefreshEveryRound(tk, o, a, oc) ==
    /\ ~o.ok
    /\ o.err.statusCode = 401
    /\ isOAuthAuth(a)
    /\ oc

\* a catch block that goes for a refresh under any credential
WantsForcedRefreshAnyCredential(tk, o, a, oc) ==
    /\ tk.round = 1
    /\ ~o.ok
    /\ o.err.statusCode = 401

\* line 309: the catch block of withRetry goes for a refresh; the catch block of the
\* re-execution (line 320) does not
WantsForcedRefresh(tk, o, a, oc) ==
    /\ tk.round = 1
    /\ ~o.ok
    /\ o.err.statusCode = 401
    /\ isOAuthAuth(a)
    /\ oc

\* the credential is OAuth with a refresh capability: the client holds an OAuth client
\* and the credential a refresh token
Capable(a, oc) == isOAuthAuth(a) /\ oc /\ a.refreshToken # NoToken

\* the history of a round that ends with outcome o after n invocations of fn
Noted(tk, o, n, a, oc) ==
    IF tk.round = 1 /\ ~o.ok
    THEN [tk EXCEPT !.calls = n, !.firstErr = o.err, !.capable = Capable(a, oc)]
    ELSE [tk EXCEPT !.calls = n]

\* lines 307-327: a round of task t has ended with outcome o after n invocations of fn
EndRound(t, o, n) ==
    IF WantsForcedRefresh(task[t], o, auth, oauthClient)
    THEN /\ FreeRefreshIds # {}
         /\ refresh' = [refresh EXCEPT ![NextRefreshId] = refreshTokenStart(auth, oauthClient, "401")]
         /\ task' = [task EXCEPT ![t] =
                [Noted(@, o, n, auth, oauthClient) EXCEPT
                    !.pc = "forcedWait", !.forced = @ + 1, !.forcedId = NextRefreshId]]
    ELSE /\ task' = [task EXCEPT ![t] =
                [Noted(@, o, n, auth, oauthClient) EXCEPT !.pc = "done", !.out = o]]
         /\ UNCHANGED refresh

\* the fn() called directly has settled
directSettles(t, o) ==
    /\ task[t].pc = "direct"
    /\ EndRound(t, o, task[t].calls)
    /\ UNCHANGED <<otherVars, cfg, rx, auth, oauthClient, tokenRefreshPromise, now, sent>>

\* the refresh of line 313 has settled: the caller resumes
forcedRefreshResumes(t) ==
    /\ task[t].pc = "forcedWait"
    /\ Settled(refresh[task[t].forcedId])
    /\ task' = [task EXCEPT ![t] = AfterForcedRefresh(cfg, @, refresh[task[t].forcedId])]
    /\ rx' = [rx EXCEPT ![t] = IF task'[t].pc = "round" THEN EnterLoop ELSE @]
    /\ UNCHANGED <<otherVars, cfg, auth, oauthClient, tokenRefreshPromise, refresh, now>>
    /\ Dispatch(t)

\* the token endpoint answers exchange id: lines 220-248 run
tokenExchangeSettles(id, resp) ==
    /\ refresh[id].st = "exchanging"
    /\ IF ~resp.ok
       THEN /\ refresh' = [refresh EXCEPT ![id].st = "rejected", ![id].resp = resp,
                                          ![id].err = PlainError("Token refresh failed")]
            /\ UNCHANGED auth
       ELSE /\ auth' = newAuth(auth, id, resp, now)
            /\ refresh' = [refresh EXCEPT ![id] = AfterSwap(@, id, resp, auth')]
    /\ UNCHANGED <<otherVars, cfg, rx, oauthClient, tokenRefreshPromise, now, task, sent>>

\* time passes
tick ==
    /\ now < MaxTime * bufferMs
    /\ now' = now + bufferMs
    /\ UNCHANGED <<otherVars, cfg, rx, auth, oauthClient, tokenRefreshPromise, refresh, task,
                    sent>>

\* the credentials the application installs with updateAuth: an OAuth credential of
\* its own, and an api key
InstalledAuths ==
    {[type |-> "oauth", accessToken |-> InstalledAccessToken,
      refreshToken |-> InstalledRefreshToken, expiresAt |-> 2 * bufferMs,
      hasClient |-> TRUE, onTokenRefresh |-> "none"],
     [ApiKeyAuth EXCEPT !.accessToken = InstalledAccessToken]}

\* lines 333-337: updateAuth(a) replaces the credential; the OAuth client and the
\* refreshes in flight are left as they are
updateAuth(a) ==
    /\ auth # a
    /\ auth' = a
    /\ UNCHANGED <<otherVars, cfg, rx, oauthClient, tokenRefreshPromise, refresh, now, task,
                    sent>>

(***************************************************************************)
(* The actions of one withRetry loop.                                      *)
(***************************************************************************)
\* utils/retry.ts withRetry(fn, config) is called
withRetry(t) ==
    /\ rx[t].rpc = "idle"
    /\ task[t].pc = "idle"
    /\ rx' = [rx EXCEPT ![t] = EnterLoop]
    /\ UNCHANGED <<otherVars, cfg, clientVars>>

\* the pending fn() settles; a loop that returns or throws inside a client.withRetry
\* call hands its result to that call (client.ts lines 304 and 317)
fnSettles(t, o) ==
    /\ rx[t].rpc = "awaitFn"
    /\ LET x == Settle(cfg, rx[t], o)
       IN IF task[t].pc = "round" /\ x.rpc \in {"returned", "threw"}
          THEN /\ EndRound(t, x.out, Invocations(task[t], x))
               /\ rx' = [rx EXCEPT ![t] = IdleLoop]
          ELSE /\ rx' = [rx EXCEPT ![t] = x]
               /\ UNCHANGED <<refresh, task>>
    /\ UNCHANGED <<otherVars, cfg, auth, oauthClient, tokenRefreshPromise, now, sent>>

\* the timer of sleep(delay) fires
sleepEnds(t) ==
    /\ rx[t].rpc = "sleeping"
    /\ rx' = [rx EXCEPT ![t] = Wake(rx[t])]
    /\ UNCHANGED <<otherVars, cfg, auth, oauthClient, tokenRefreshPromise, refresh, now, task>>
    /\ Dispatch(t)

(***************************************************************************)
(* resources/opportunities.ts: the pipeline cache                          *)
(***************************************************************************)
NoLocation == "undefined"
Locations == {"locA", "locB"}

\* GHLClient.requireLocationId: the location a call is about, NoLocation when the
\* call throws for want of one
requireLocationId(arg, default) ==
    LET id == IF arg # NoLocation THEN arg ELSE default
    IN id

CACHE_TTL == 60 * 60 * 1000

\* String.prototype.toLowerCase on the stage names of the model
ToLowerCase(name) ==
    CASE name = "Won" -> "won"
      [] name = "WON" -> "won"
      [] name = "Lost" -> "lost"
      [] OTHER -> name

\* the pipelines the API may answer with; PipelineA2 is PipelineA after a change
PipelineA ==
    [id |-> "pA", stages |-> <<[id |-> "s1", name |-> "Lost"], [id |-> "s2", name |-> "Won"],
                              [id |-> "s3", name |-> "WON"]>>]
PipelineA2 == [id |-> "pA", stages |-> <<[id |-> "s4", name |-> "Lost"]>>]
PipelineB == [id |-> "pB", stages |-> <<>>]

PipelineLists ==
    {<<PipelineA, PipelineB>>, <<PipelineA, PipelineA2>>}

\* the outcomes of getPipelines(locId): the pipelines of the response, or the error of
\* client.withRetry
FetchOutcomes ==
    {[ok |-> TRUE, err |-> NoError, pipelines |-> l] : l \in PipelineLists}
    \cup {[ok |-> FALSE, err |-> HttpClientError(500), pipelines |-> <<>>]}

\* Map: a function from the keys set so far
EmptyMap == [k \in {} |-> PipelineB]

MapSet(m, k, v) == [x \in (DOMAIN m) \cup {k} |-> IF x = k THEN v ELSE m[x]]

\* lines 254-258: the map built from the pipelines fetched
RECURSIVE BuildMapFrom(_, _)
BuildMapFrom(m, pipelines) ==
    IF pipelines = <<>> THEN m
    ELSE BuildMapFrom(MapSet(m, Head(pipelines).id, Head(pipelines)), Tail(pipelines))

BuildMap(pipelines) == BuildMapFrom(EmptyMap, pipelines)

\* an entry of pipelineCache; NoEntry stands for a key the Map does not have
NoEntry == [present |-> FALSE, pipelines |-> EmptyMap, timestamp |-> 0]

CacheEntry(pipelinesMap, n) == [present |-> TRUE, pipelines |-> pipelinesMap, timestamp |-> n]

\* an entry that is served until its age is past the TTL
FreshThroughTtl(cached, n) == cached.present /\ n - cached.timestamp <= CACHE_TTL

\* an entry that is never served
FreshNever(cached, n) == FALSE

\* line 245: the entry is there and younger than the TTL
Fresh(cached, n) == cached.present /\ n - cached.timestamp < CACHE_TTL

\* a lookup that compares the names as they are written
RECURSIVE FindStageExact(_, _)
FindStageExact(stages, stageName) ==
    IF stages = <<>> THEN [found |-> FALSE, id |-> "", name |-> ""]
    ELSE IF Head(stages).name = stageName
         THEN [found |-> TRUE, id |-> Head(stages).id, name |-> Head(stages).name]
         ELSE FindStageExact(Tail(stages), stageName)

\* lines 290-294: the first stage whose name is stageName, letter case ignored
RECURSIVE FindStage(_, _)
FindStage(stages, stageName) ==
    IF stages = <<>> THEN [found |-> FALSE, id |-> "", name |-> ""]
    ELSE IF ToLowerCase(Head(stages).name) = ToLowerCase(stageName)
         THEN [found |-> TRUE, id |-> Head(stages).id, name |-> Head(stages).name]
         ELSE FindStage(Tail(stages), stageName)

\* lines 282-296: findStageByName once the pipeline map is there; found = FALSE is null
StageByName(pipelinesMap, pipelineId, stageName) ==
    IF pipelineId \notin DOMAIN pipelinesMap
    THEN [found |-> FALSE, id |-> "", name |-> ""]
    ELSE FindStage(pipelinesMap[pipelineId].stages, stageName)

\* the calls made: loadPipelinesCache(loc), or findStageByName(loc, pipelineId, stageName)
LoadArgs ==
    {[kind |-> "load", pipelineId |-> "", stageName |-> ""]}
    \cup {[kind |-> "find", pipelineId |-> p, stageName |-> n] :
            p \in {"pA", "pZ"}, n \in {"WON"}}

\* one call of loadPipelinesCache or findStageByName:
\*   pc       "idle", "fetching" (line 252), "returned", "threw"
\*   args     what was called; loc: the location the call is about
\*   saw      what line 245 found: "fresh", "stale" (an entry past the TTL), "absent"
\*   fetches  the getPipelines calls made
\*   result   the map loadPipelinesCache returned; found: what findStageByName returned
\*   err      the error thrown
\*   overtaken  clearPipelineCache emptied the call's location while its fetch was out
IdleLoad ==
    [pc |-> "idle", args |-> [kind |-> "load", pipelineId |-> "", stageName |-> ""],
     loc |-> NoLocation, saw |-> "", fetches |-> 0, result |-> EmptyMap,
     found |-> [found |-> FALSE, id |-> "", name |-> ""], err |-> NoError,
     overtaken |-> FALSE]

\* the call has its map: loadPipelinesCache returns it, findStageByName goes on with it
Returned(ld, pipelinesMap) ==
    [ld EXCEPT !.pc = "returned", !.result = pipelinesMap, !.overtaken = FALSE,
               !.found = IF ld.args.kind = "find"
                         THEN StageByName(pipelinesMap, ld.args.pipelineId, ld.args.stageName)
                         ELSE @]

\* loadPipelinesCache(arg) or findStageByName(arg, ...) is called: lines 241-252
loadPipelinesCache(c, arg, args) ==
    /\ load[c].pc = "idle"
    /\ IF c = 1 THEN TRUE ELSE load[c - 1].pc # "idle"
    /\ LET locId == requireLocationId(arg, locationId)
           cached == pipelineCache[locId]
           ld == [load[c] EXCEPT !.args = args, !.loc = locId]
       IN IF locId = NoLocation
          THEN load' = [load EXCEPT ![c] =
                    [ld EXCEPT !.pc = "threw", !.err = PlainError("Location ID is required")]]
          ELSE IF Fresh(cached, now)
          THEN load' = [load EXCEPT ![c] =
                    Returned([ld EXCEPT !.saw = "fresh"], cached.pipelines)]
          ELSE load' = [load EXCEPT ![c] =
                    [ld EXCEPT !.saw = IF cached.present THEN "stale" ELSE "absent",
                               !.pc = "fetching", !.fetches = @ + 1]]
    /\ UNCHANGED <<cfg, rx, clientVars, probe, usersVars, sinkVars, locationId, pipelineCache, cleared>>

\* the getPipelines call of line 252 settles: lines 254-266
getPipelinesSettles(c, o) ==
    /\ load[c].pc = "fetching"
    /\ IF o.ok
       THEN LET pipelinesMap == BuildMap(o.pipelines)
            IN /\ pipelineCache' =
                     [pipelineCache EXCEPT ![load[c].loc] = CacheEntry(pipelinesMap, now)]
               /\ load' = [load EXCEPT ![c] = Returned(@, pipelinesMap)]
       ELSE /\ load' = [load EXCEPT ![c].pc = "threw", ![c].err = o.err,
                                     ![c].overtaken = FALSE]
            /\ UNCHANGED pipelineCache
    /\ UNCHANGED <<cfg, rx, clientVars, probe, usersVars, sinkVars, locationId, cleared>>

\* no call of clearPipelineCache yet
NoClear == [called |-> FALSE, arg |-> NoLocation, threw |-> FALSE]

\* line 309: if (locationId), false for undefined and for the empty string
Truthy(arg) == arg # NoLocation /\ arg # ""

\* a clear that spares the location it is given
MapDeleteOthers(cache, key) == [l \in DOMAIN cache |-> IF l = key THEN cache[l] ELSE NoEntry]

\* Map.delete(key): ends the same way whether or not the key is there
MapDelete(cache, key) == [l \in DOMAIN cache |-> IF l = key THEN NoEntry ELSE cache[l]]

\* Map.clear()
MapClear(cache) == [l \in DOMAIN cache |-> NoEntry]

\* clearPipelineCache(arg): lines 308-314
clearPipelineCache(arg) ==
    /\ pipelineCache' =
          IF Truthy(arg) THEN MapDelete(pipelineCache, arg) ELSE MapClear(pipelineCache)
    /\ cleared' = [called |-> TRUE, arg |-> arg, threw |-> FALSE]
    /\ load' = [c \in Loads |->
                 IF load[c].pc = "fetching" /\ (Truthy(arg) => load[c].loc = arg)
                 THEN [load[c] EXCEPT !.overtaken = TRUE]
                 ELSE load[c]]
    /\ UNCHANGED <<cfg, rx, clientVars, probe, usersVars, sinkVars, locationId>>

\* half an hour passes
halfHourPasses ==
    /\ now < MaxHalfHours * (CACHE_TTL \div 2)
    /\ now' = now + CACHE_TTL \div 2
    /\ UNCHANGED <<cfg, rx, auth, oauthClient, tokenRefreshPromise, refresh, task, sent>>
    /\ UNCHANGED otherVars

\* the resource before any call
CacheUnused ==
    /\ pipelineCache = [l \in Locations |-> NoEntry]
    /\ load = [c \in Loads |-> IdleLoad]
    /\ cleared = NoClear

(***************************************************************************)
(* resources/users.ts: UsersResource.list                                  *)
(***************************************************************************)
\* lines 29-34 with the first two in the other order
EndpointsSwapped ==
    <<"/users?locationId={locId}", "/users/?locationId={locId}",
      "/locations/{locId}/users", "/locations/{locId}/users/">>

\* lines 29-34: the endpoint variations, in the order of the array
Endpoints ==
    <<"/users/?locationId={locId}", "/users?locationId={locId}",
      "/locations/{locId}/users", "/locations/{locId}/users/">>

\* what the API may answer with
UserLists == {<<>>, <<"u1">>, <<"u1", "u2">>}

\* the outcomes of one client.withRetry(() => http.get(endpoint)) of lines 40-48
EndpointErrors == {HttpClientError(404), HttpClientError(500), TimeoutError}

EndpointOutcomes ==
    {[ok |-> TRUE, err |-> NoError, users |-> u] : u \in UserLists}
    \cup {[ok |-> FALSE, err |-> e, users |-> <<>>] : e \in EndpointErrors}

\* one call of list:
\*   pc       "idle", "awaiting" (line 40), "returned", "threw"
\*   loc      the location of line 25
\*   i        the position in Endpoints of the variation the loop is at
\*   trace    the requests sent and how each ended, in order
\*   lastError  line 36
\*   result   the users returned; err: the error thrown
IdleList ==
    [pc |-> "idle", loc |-> NoLocation, i |-> 0, trace |-> <<>>, lastError |-> NoError,
     result |-> <<>>, err |-> NoError]

\* the loop of line 38 reaches the variation at position i: the request of line 40 is sent
TryEndpoint(u, i) ==
    [u EXCEPT !.pc = "awaiting", !.i = i,
              !.trace = Append(@, [ev |-> "sent", endpoint |-> Endpoints[i], ok |-> TRUE,
                                   err |-> NoError, users |-> <<>>])]

\* list(arg) is called: lines 25-40
usersList(arg) ==
    /\ userList.pc = "idle"
    /\ LET locId == requireLocationId(arg, locationId)
       IN userList' =
            IF locId = NoLocation
            THEN [userList EXCEPT !.pc = "threw", !.err = PlainError("Location ID is required")]
            ELSE TryEndpoint([userList EXCEPT !.loc = locId], 1)
    /\ UNCHANGED <<cfg, rx, clientVars, probe, cacheVars, sinkVars>>

\* the request of line 40 settles: lines 50-59
endpointSettles(o) ==
    /\ userList.pc = "awaiting"
    /\ LET u == [userList EXCEPT
                    !.trace = Append(@, [ev |-> "settled",
                                         endpoint |-> Endpoints[userList.i], ok |-> o.ok,
                                         err |-> o.err, users |-> o.users])]
       IN userList' =
            IF o.ok
            THEN [u EXCEPT !.pc = "returned", !.result = o.users]
            ELSE IF userList.i < Len(Endpoints)
            THEN TryEndpoint([u EXCEPT !.lastError = o.err], userList.i + 1)
            ELSE [u EXCEPT !.lastError = o.err, !.pc = "threw", !.err = o.err]
    /\ UNCHANGED <<cfg, rx, clientVars, probe, cacheVars, sinkVars>>

(***************************************************************************)
(* The sinks: client.log, client.audit, and ContactsResource.get           *)
(***************************************************************************)
\* a Logger: no-op, or one whose debug(), error() or every method throws
Loggers == {"noop", "debugThrows", "errorThrows", "throws"}

\* an AuditLogger: no-op, one whose log() throws, one whose log() returns a promise
\* that rejects
AuditLoggers == {"noop", "throws", "rejects"}

LoggerError == PlainError("logger threw")

\* this.logger.debug(...) / this.logger.error(...) throws
DebugThrows(lg) == lg \in {"debugThrows", "throws"}

ErrorThrows(lg) == lg \in {"errorThrows", "throws"}

\* GHLClient.log (client.ts 367-369): TRUE when the call throws
logThrows(lg) == DebugThrows(lg)

\* GHLClient.audit (client.ts 391-407): TRUE when the call throws. The promise of an
\* asynchronous log() is not awaited, so its rejection does not reach the try block
auditThrows(lg, al) == al = "throws" /\ ErrorThrows(lg)

\* the contacts and the errors client.withRetry may end with
Contacts == {[id |-> c, locationId |-> l] : c \in {"c1"}, l \in Locations}

ContactOutcomes ==
    {[ok |-> TRUE, err |-> NoError, contact |-> c] : c \in Contacts}
    \cup {[ok |-> FALSE, err |-> e, contact |-> [id |-> "", locationId |-> ""]] :
            e \in {HttpClientError(401), HttpClientError(404), HttpClientError(500),
                    TimeoutError}}

\* one call of ContactsResource.get:
\*   pc       "idle", "awaiting" (line 35), "returned", "threw"
\*   settled  whether client.withRetry has settled, and o, how
\*   sinks    the calls made to the sinks, in order
\*   result   the contact returned; err: the error thrown
IdleGet ==
    [pc |-> "idle", contactId |-> "", settled |-> FALSE,
     o |-> [ok |-> FALSE, err |-> NoError, contact |-> [id |-> "", locationId |-> ""]],
     sinks |-> <<>>, result |-> [id |-> "", locationId |-> ""], err |-> NoError]

\* the sink calls of one client.audit
AuditCalls(lg, al) == IF al = "throws" THEN <<"audit", "error">> ELSE <<"audit">>

\* get(contactId) is called: lines 31-35
contactsGet(contactId) ==
    /\ contactGet.pc = "idle"
    /\ contactGet' =
          IF logThrows(logger)
          THEN [contactGet EXCEPT !.contactId = contactId, !.sinks = <<"debug">>,
                                  !.pc = "threw", !.err = LoggerError]
          ELSE [contactGet EXCEPT !.contactId = contactId, !.sinks = <<"debug">>,
                                  !.pc = "awaiting"]
    /\ UNCHANGED <<cfg, rx, clientVars, probe, cacheVars, usersVars, logger, auditLogger,
                    bufferAuditLogger>>

\* client.withRetry settles: lines 45-63
contactRequestSettles(o) ==
    /\ contactGet.pc = "awaiting"
    /\ LET g == [contactGet EXCEPT !.settled = TRUE, !.o = o]
           calls == AuditCalls(logger, auditLogger)
           \* the error the catch block of line 54 holds
           caught == IF o.ok THEN LoggerError ELSE o.err
       IN contactGet' =
            IF o.ok /\ ~auditThrows(logger, auditLogger)
            THEN [g EXCEPT !.sinks = @ \o calls, !.pc = "returned", !.result = o.contact]
            ELSE IF auditThrows(logger, auditLogger)
            THEN [g EXCEPT !.sinks = @ \o (IF o.ok THEN calls ELSE <<>>) \o calls,
                           !.pc = "threw", !.err = LoggerError]
            ELSE [g EXCEPT !.sinks = @ \o calls, !.pc = "threw", !.err = caught]
    /\ UNCHANGED <<cfg, rx, clientVars, probe, cacheVars, usersVars, logger, auditLogger,
                    bufferAuditLogger>>

(***************************************************************************)
(* src/utils/audit.ts: BufferAuditLogger.  onFlush is an asynchronous       *)
(* function: it returns a promise, which resolves once the batch is        *)
(* delivered or rejects with nothing delivered.                            *)
(***************************************************************************)
\* the events logged are numbered 1, 2, ... in the order of the log() calls
AuditEvents == 1..MaxEvents
FlushIds == 1..MaxFlushes

\* line 131: the default of maxBufferSize
DefaultMaxBufferSize == 100

\* one onFlush(eventsToFlush) call and the promise chain built on it (lines 162-171):
\*   st     "unused", "pending" (onFlush has not settled), "catch" (it rejected, the
\*          handler of line 163 has not run yet), "finally" (the handler of line 169
\*          has not run yet), "done"
\*   batch  eventsToFlush
\*   ok     the promise of onFlush resolved
UnusedFlush == [st |-> "unused", batch |-> <<>>, ok |-> FALSE]

\* lines 126-136: a new logger; delivered and logged record what onFlush delivered,
\* batch after batch, and how many events were logged; waiting says that a flush()
\* call is suspended at line 155
NewBufferAuditLogger(maxBufferSize) ==
    [maxBufferSize |-> maxBufferSize, buffer |-> <<>>, flushPromise |-> 0,
     flushes |-> [id \in FlushIds |-> UnusedFlush], delivered |-> <<>>, logged |-> 0,
     waiting |-> FALSE]

FreeFlushIds(b) == {id \in FlushIds : b.flushes[id].st = "unused"}
NextFlushId(b) == CHOOSE id \in FreeFlushIds(b) : \A other \in FreeFlushIds(b) : id <= other

\* a guard that never finds a flush in flight
FlushInFlightNever(handle) == FALSE

\* line 154: if (this.flushPromise)
FlushInFlight(handle) == handle # 0

\* a handler that drops the events of a failed flush
PutBackNothing(buffer, eventsToFlush) == buffer

\* line 167: this.buffer.unshift(...eventsToFlush)
PutBack(buffer, eventsToFlush) == eventsToFlush \o buffer

\* lines 148-162: flush() up to its await
Flush(b) ==
    IF Len(b.buffer) = 0
    THEN b
    ELSE IF FlushInFlight(b.flushPromise)
    THEN [b EXCEPT !.waiting = TRUE]
    ELSE [b EXCEPT !.flushes[NextFlushId(b)] = [st |-> "pending", batch |-> b.buffer, ok |-> FALSE],
                   !.buffer = <<>>,
                   !.flushPromise = NextFlushId(b)]

\* flush() would call onFlush
StartsFlush(b) == Len(b.buffer) > 0 /\ ~FlushInFlight(b.flushPromise)

auditFrame == UNCHANGED <<cfg, rx, clientVars, probe, cacheVars, usersVars, logger, auditLogger,
                          contactGet>>

\* lines 138-145: log(event), with the flush() it calls when the buffer is full
bufferLog ==
    /\ bufferAuditLogger.logged < MaxEvents
    /\ LET pushed == [bufferAuditLogger EXCEPT !.buffer = Append(@, bufferAuditLogger.logged + 1),
                                               !.logged = @ + 1]
           full == Len(pushed.buffer) >= pushed.maxBufferSize
       IN /\ (full /\ StartsFlush(pushed)) => FreeFlushIds(pushed) # {}
          /\ bufferAuditLogger' = IF full THEN Flush(pushed) ELSE pushed
    /\ auditFrame

\* lines 147-162: flush() is called, by the interval timer of line 135 or by the
\* application
bufferFlush ==
    /\ StartsFlush(bufferAuditLogger) => FreeFlushIds(bufferAuditLogger) # {}
    /\ bufferAuditLogger' = Flush(bufferAuditLogger)
    /\ auditFrame

\* the promise of onFlush call id settles
onFlushSettles(id, ok) ==
    /\ bufferAuditLogger.flushes[id].st = "pending"
    /\ bufferAuditLogger' =
          IF ok
          THEN [bufferAuditLogger EXCEPT !.flushes[id].st = "finally", !.flushes[id].ok = TRUE,
                                         !.delivered = @ \o bufferAuditLogger.flushes[id].batch]
          ELSE [bufferAuditLogger EXCEPT !.flushes[id].st = "catch"]
    /\ auditFrame

\* lines 163-168: the catch handler puts the events back
flushCatch(id) ==
    /\ bufferAuditLogger.flushes[id].st = "catch"
    /\ bufferAuditLogger' =
          [bufferAuditLogger EXCEPT !.flushes[id].st = "finally",
                                    !.buffer = PutBack(@, bufferAuditLogger.flushes[id].batch)]
    /\ auditFrame

\* lines 169-171: the finally handler clears the marker; the flush() calls that
\* awaited it return
flushFinally(id) ==
    /\ bufferAuditLogger.flushes[id].st = "finally"
    /\ bufferAuditLogger' =
          [bufferAuditLogger EXCEPT !.flushes[id].st = "done", !.flushPromise = 0,
                                    !.waiting = FALSE]
    /\ auditFrame

\* the sinks of a client that logs nothing
SinksUnused ==
    /\ logger = "noop"
    /\ auditLogger = "noop"
    /\ contactGet = IdleGet
    /\ bufferAuditLogger = NewBufferAuditLogger(DefaultMaxBufferSize)

(***************************************************************************)
(* The specifications.                                                     *)
(***************************************************************************)
InitialAuths ==
    {ApiKeyAuth}
    \cup {OAuthAuth(r, e, h, cb) :
            r \in {NoToken, InitialRefreshToken}, e \in {0, bufferMs, 2 * bufferMs},
            h \in BOOLEAN, cb \in {"none", "returns", "throws"}}

ClientRetryConfigs ==
    {NoRetryConfig, RetryConfig(ClientMaxRetries, <<1000, 2, 10000>>, "default", "safe")}

\* the constructor of GHLClient (lines 138-184)
InitClient ==
    /\ auth \in InitialAuths
    /\ oauthClient = (isOAuthAuth(auth) /\ auth.hasClient)
    /\ tokenRefreshPromise = 0
    /\ refresh = [id \in RefreshIds |-> UnusedRefresh]
    /\ now = 0
    /\ task = [t \in Tasks |-> IdleTask]
    /\ sent = [t \in Tasks |-> NoHeaders]

\* no expiry check is being probed
NoProbe ==
    [asked |-> FALSE, recorded |-> FALSE, expiresAt |-> 0, bufferGiven |-> FALSE,
     bufferSeconds |-> 0, byOAuthClient |-> FALSE, byClient |-> FALSE]

Init ==
    /\ InitClient
    /\ cfg \in ClientRetryConfigs
    /\ rx = [t \in Tasks |-> IdleLoop]
    /\ probe = NoProbe
    /\ locationId = NoLocation
    /\ CacheUnused
    /\ userList = IdleList
    /\ SinksUnused

Next ==
    \/ \E t \in Tasks : clientWithRetry(t)
    \/ \E t \in Tasks : ensureValidTokenResumes(t)
    \/ \E t \in Tasks, o \in RetryOutcomes : fnSettles(t, o)
    \/ \E t \in Tasks : sleepEnds(t)
    \/ \E t \in Tasks, o \in RetryOutcomes : directSettles(t, o)
    \/ \E t \in Tasks : forcedRefreshResumes(t)
    \/ \E id \in RefreshIds, resp \in TokenResponses : tokenExchangeSettles(id, resp)
    \/ tick

Spec == Init /\ [][Next]_vars

\* a client with an OAuth credential, whose application installs credentials
InitAuth ==
    /\ auth \in {OAuthAuth(InitialRefreshToken, e, TRUE, "none") : e \in {bufferMs, 2 * bufferMs}}
    /\ oauthClient = (isOAuthAuth(auth) /\ auth.hasClient)
    /\ tokenRefreshPromise = 0
    /\ refresh = [id \in RefreshIds |-> UnusedRefresh]
    /\ now = 0
    /\ task = [t \in Tasks |-> IdleTask]
    /\ sent = [t \in Tasks |-> NoHeaders]
    /\ cfg \in ClientRetryConfigs
    /\ rx = [t \in Tasks |-> IdleLoop]
    /\ probe = NoProbe
    /\ locationId = NoLocation
    /\ CacheUnused
    /\ userList = IdleList
    /\ SinksUnused

\* the calls made while the application installs credentials: one client.withRetry call
AuthCallers == {t \in Tasks : t = 1}

NextAuth ==
    \/ \E t \in AuthCallers : clientWithRetry(t)
    \/ \E t \in AuthCallers : ensureValidTokenResumes(t)
    \/ \E t \in AuthCallers, o \in RetryOutcomes : fnSettles(t, o)
    \/ \E t \in AuthCallers : sleepEnds(t)
    \/ \E t \in AuthCallers, o \in RetryOutcomes : directSettles(t, o)
    \/ \E t \in AuthCallers : forcedRefreshResumes(t)
    \/ \E id \in RefreshIds, resp \in TokenResponses : tokenExchangeSettles(id, resp)
    \/ tick
    \/ \E a \in InstalledAuths : updateAuth(a)

SpecAuth == InitAuth /\ [][NextAuth]_vars

\* a BufferAuditLogger on its own
InitAudit ==
    /\ auth = ApiKeyAuth
    /\ oauthClient = FALSE
    /\ tokenRefreshPromise = 0
    /\ refresh = [id \in RefreshIds |-> UnusedRefresh]
    /\ now = 0
    /\ task = [t \in Tasks |-> IdleTask]
    /\ sent = [t \in Tasks |-> NoHeaders]
    /\ cfg = NoRetryConfig
    /\ rx = [t \in Tasks |-> IdleLoop]
    /\ probe = NoProbe
    /\ locationId = NoLocation
    /\ CacheUnused
    /\ userList = IdleList
    /\ logger = "noop"
    /\ auditLogger = "noop"
    /\ contactGet = IdleGet
    /\ \E m \in {1, 2, DefaultMaxBufferSize} : bufferAuditLogger = NewBufferAuditLogger(m)

NextAudit ==
    \/ bufferLog
    \/ bufferFlush
    \/ \E id \in FlushIds, ok \in BOOLEAN : onFlushSettles(id, ok)
    \/ \E id \in FlushIds : flushCatch(id)
    \/ \E id \in FlushIds : flushFinally(id)

SpecAudit == InitAudit /\ [][NextAudit]_vars

\* one withRetry(fn, config) call on its own
InitRetry ==
    /\ auth = ApiKeyAuth
    /\ oauthClient = FALSE
    /\ tokenRefreshPromise = 0
    /\ refresh = [id \in RefreshIds |-> UnusedRefresh]
    /\ now = 0
    /\ task = [t \in Tasks |-> IdleTask]
    /\ sent = [t \in Tasks |-> NoHeaders]
    /\ cfg \in RetryConfigs
    /\ rx = [t \in Tasks |-> IdleLoop]
    /\ probe = NoProbe
    /\ locationId = NoLocation
    /\ CacheUnused
    /\ userList = IdleList
    /\ SinksUnused

NextRetry ==
    \/ withRetry(1)
    \/ \E o \in RetryOutcomes : fnSettles(1, o)
    \/ sleepEnds(1)

SpecRetry == InitRetry /\ [][NextRetry]_vars

\* one withRetry(fn) call under the default policy, fn being one HTTP request
DefaultPolicyConfigs ==
    {RetryConfig(m, d, "default", "safe") : m \in 0..MaxRetriesBound, d \in DelayConfigs}

InitHttp ==
    /\ auth = ApiKeyAuth
    /\ oauthClient = FALSE
    /\ tokenRefreshPromise = 0
    /\ refresh = [id \in RefreshIds |-> UnusedRefresh]
    /\ now = 0
    /\ task = [t \in Tasks |-> IdleTask]
    /\ sent = [t \in Tasks |-> NoHeaders]
    /\ cfg \in DefaultPolicyConfigs
    /\ rx = [t \in Tasks |-> IdleLoop]
    /\ probe = NoProbe
    /\ locationId = NoLocation
    /\ CacheUnused
    /\ userList = IdleList
    /\ SinksUnused

NextHttp ==
    \/ withRetry(1)
    \/ \E o \in HttpOutcomes : fnSettles(1, o)
    \/ sleepEnds(1)

SpecHttp == InitHttp /\ [][NextHttp]_vars

\* the two expiry checks asked about one credential at one time: the credential is an
\* API key or an OAuth credential that records expiresAt or not; OAuthClient's check
\* is called with that expiresAt and with a buffer or without one
ExpiryTimes == {m * 60 * 1000 : m \in 0..MaxMinutes}
BufferSeconds == {0, 180, 300}

InitExpiry ==
    /\ now \in ExpiryTimes
    /\ \E e \in ExpiryTimes, rec \in BOOLEAN, given \in BOOLEAN, b \in BufferSeconds :
          /\ probe = [NoProbe EXCEPT !.recorded = rec, !.expiresAt = e,
                                      !.bufferGiven = given,
                                      !.bufferSeconds = IF given THEN b ELSE 0]
          /\ auth \in {ApiKeyAuth,
                        OAuthAuth(InitialRefreshToken, IF rec THEN e ELSE 0, TRUE, "none")}
    /\ oauthClient = (isOAuthAuth(auth) /\ auth.hasClient)
    /\ tokenRefreshPromise = 0
    /\ refresh = [id \in RefreshIds |-> UnusedRefresh]
    /\ task = [t \in Tasks |-> IdleTask]
    /\ sent = [t \in Tasks |-> NoHeaders]
    /\ cfg = NoRetryConfig
    /\ rx = [t \in Tasks |-> IdleLoop]
    /\ locationId = NoLocation
    /\ CacheUnused
    /\ userList = IdleList
    /\ SinksUnused

\* oauthClient.isTokenExpired(expiresAt[, bufferSeconds]) and the client's own
\* isTokenExpired() are called at the same time
expiryChecked ==
    /\ ~probe.asked
    /\ probe' = [probe EXCEPT
            !.asked = TRUE,
            !.byOAuthClient =
                OAuthClientIsTokenExpired(probe.expiresAt,
                    IF probe.bufferGiven THEN probe.bufferSeconds ELSE DefaultBufferSeconds,
                    now),
            !.byClient = isTokenExpired(auth, now)]
    /\ UNCHANGED <<cfg, rx, clientVars, cacheVars, usersVars, sinkVars>>

NextExpiry == expiryChecked

SpecExpiry == InitExpiry /\ [][NextExpiry]_vars

\* the pipeline cache of one client, under calls and the passing of time
InitPipelines ==
    /\ auth = ApiKeyAuth
    /\ oauthClient = FALSE
    /\ tokenRefreshPromise = 0
    /\ refresh = [id \in RefreshIds |-> UnusedRefresh]
    /\ now = 0
    /\ task = [t \in Tasks |-> IdleTask]
    /\ sent = [t \in Tasks |-> NoHeaders]
    /\ cfg = NoRetryConfig
    /\ rx = [t \in Tasks |-> IdleLoop]
    /\ probe = NoProbe
    /\ locationId \in {NoLocation, "locA"}
    /\ CacheUnused
    /\ userList = IdleList
    /\ SinksUnused

NextPipelines ==
    \/ \E c \in Loads, arg \in Locations \cup {NoLocation}, args \in LoadArgs :
          loadPipelinesCache(c, arg, args)
    \/ \E c \in Loads, o \in FetchOutcomes : getPipelinesSettles(c, o)
    \/ halfHourPasses

SpecPipelines == InitPipelines /\ [][NextPipelines]_vars

\* one call of ContactsResource.get of a client built with a logger and an audit logger
InitSinks ==
    /\ auth = ApiKeyAuth
    /\ oauthClient = FALSE
    /\ tokenRefreshPromise = 0
    /\ refresh = [id \in RefreshIds |-> UnusedRefresh]
    /\ now = 0
    /\ task = [t \in Tasks |-> IdleTask]
    /\ sent = [t \in Tasks |-> NoHeaders]
    /\ cfg = NoRetryConfig
    /\ rx = [t \in Tasks |-> IdleLoop]
    /\ probe = NoProbe
    /\ locationId = NoLocation
    /\ CacheUnused
    /\ userList = IdleList
    /\ logger \in Loggers
    /\ auditLogger \in AuditLoggers
    /\ contactGet = IdleGet
    /\ bufferAuditLogger = NewBufferAuditLogger(DefaultMaxBufferSize)

NextSinks ==
    \/ \E contactId \in {"c1", "c2"} : contactsGet(contactId)
    \/ \E o \in ContactOutcomes : contactRequestSettles(o)

SpecSinks == InitSinks /\ [][NextSinks]_vars

\* one call of UsersResource.list
InitUsers ==
    /\ auth = ApiKeyAuth
    /\ oauthClient = FALSE
    /\ tokenRefreshPromise = 0
    /\ refresh = [id \in RefreshIds |-> UnusedRefresh]
    /\ now = 0
    /\ task = [t \in Tasks |-> IdleTask]
    /\ sent = [t \in Tasks |-> NoHeaders]
    /\ cfg = NoRetryConfig
    /\ rx = [t \in Tasks |-> IdleLoop]
    /\ probe = NoProbe
    /\ locationId \in {NoLocation, "locA"}
    /\ CacheUnused
    /\ userList = IdleList
    /\ SinksUnused

NextUsers ==
    \/ \E arg \in Locations \cup {NoLocation} : usersList(arg)
    \/ \E o \in EndpointOutcomes : endpointSettles(o)

SpecUsers == InitUsers /\ [][NextUsers]_vars

\* the pipeline cache of one client, under calls of loadPipelinesCache and
\* clearPipelineCache within the life of an entry
ClearArgs == Locations \cup {NoLocation, ""}

NextClear ==
    \/ \E c \in Loads, arg \in Locations \cup {NoLocation} :
          loadPipelinesCache(c, arg, [kind |-> "load", pipelineId |-> "", stageName |-> ""])
    \/ \E c \in Loads, o \in FetchOutcomes : getPipelinesSettles(c, o)
    \/ \E arg \in ClearArgs : clearPipelineCache(arg)

SpecClear == InitPipelines /\ [][NextClear]_vars

(***************************************************************************)
(* C1.  When two or more ensureValidToken() calls are made while the token *)
(* is expired and the refresh started by the first has not completed,      *)
(* exactly one token exchange is issued; every caller resumes only after   *)
(* that exchange has settled; after a success all callers have the outcome *)
(* of that one refresh, after a failure all receive its error.             *)
(***************************************************************************)
InEnsure == {t \in Tasks : task[t].pc \in {"ensureOwn", "ensureWait"}}

EnsureExchanges ==
    {id \in RefreshIds : refresh[id].origin = "ensure" /\ refresh[id].st = "exchanging"}

C1_SingleFlightRefresh ==
    /\ Cardinality(EnsureExchanges) <= 1
    /\ \A t \in InEnsure :
          refresh[task[t].awaited].st = "exchanging" =>
              /\ task[t].awaited = tokenRefreshPromise
              /\ EnsureExchanges = {task[t].awaited}
    /\ \A t \in Tasks :
          (task[t].awaited # 0 /\ task[t].ensure # "none") =>
              /\ Settled(refresh[task[t].awaited])
              /\ (task[t].ensure = "ok") = (refresh[task[t].awaited].st = "resolved")
              /\ task[t].ensure = "err" =>
                    /\ task[t].pc = "done"
                    /\ task[t].out = OpFail(refresh[task[t].awaited].err)

\* two callers awaited the same single exchange and both resumed after its success
C1_Witness ==
    \E t, u \in Tasks :
        /\ t # u
        /\ task[t].own # 0
        /\ task[u].own = 0
        /\ task[u].awaited = task[t].own
        /\ task[t].ensure = "ok"
        /\ task[u].ensure = "ok"
        /\ \A id \in RefreshIds : id # task[t].own => refresh[id].st = "unused"

(***************************************************************************)
(* C2.  In every reachable state of one client at most one token exchange  *)
(* is in flight: the refreshes started by the expiry check and those       *)
(* started by a 401 never overlap.                                         *)
(***************************************************************************)
C2_AtMostOneExchangeInFlight ==
    Cardinality({id \in RefreshIds : refresh[id].st = "exchanging"}) <= 1

(***************************************************************************)
(* C3.  Whenever a token refresh fails, for any reason, the credential     *)
(* that is active after the failure is the one that was active before:     *)
(* the step in which a refreshToken() call rejects leaves auth unchanged.  *)
(***************************************************************************)
RefreshRejects ==
    \E id \in RefreshIds : refresh[id].st # "rejected" /\ refresh'[id].st = "rejected"

C3_FailedRefreshKeepsCredential == [][RefreshRejects => auth' = auth]_vars

(***************************************************************************)
(* C4.  When an operation run through client.withRetry fails with 401 and  *)
(* the credential is OAuth with refresh capability, the client makes       *)
(* exactly one forced refresh, whatever the expiry check says; if that     *)
(* refresh succeeds the operation is executed once more, if it fails its   *)
(* error reaches the caller and the operation is not executed again; the   *)
(* outcome of the re-execution, a second 401 included, reaches the caller  *)
(* with no second refresh.                                                 *)
(***************************************************************************)
Triggered(tk) == tk.firstErr.statusCode = 401 /\ tk.capable

C4_OneForcedRefreshOneRetry ==
    \A t \in Tasks :
        LET tk == task[t]
        IN /\ tk.forced <= 1
           /\ tk.round <= 2
           /\ tk.round = 2 => (tk.forced = 1 /\ tk.forcedEnd = "ok")
           /\ Triggered(tk) =>
                /\ tk.forced = 1
                /\ refresh[tk.forcedId].origin = "401"
                /\ refresh[tk.forcedId].rt # NoToken
                /\ tk.forcedEnd = "none" => (tk.pc = "forcedWait" /\ tk.round = 1)
                /\ tk.forcedEnd = "ok" =>
                      (tk.round = 2 /\ refresh[tk.forcedId].st = "resolved")
                /\ tk.forcedEnd = "err" =>
                      /\ tk.round = 1
                      /\ tk.pc = "done"
                      /\ tk.out = OpFail(refresh[tk.forcedId].err)
                /\ (tk.pc = "done" /\ ~cfg.present) =>
                      tk.calls = (IF tk.forcedEnd = "ok" THEN 2 ELSE 1)

\* the statement without the case of a failed refresh
C4_Original ==
    \A t \in Tasks :
        (task[t].pc = "done" /\ Triggered(task[t])) =>
            (task[t].forced = 1 /\ task[t].round = 2)

\* a call whose operation failed with 401 under a credential with no expiry made one
\* refresh and one re-execution, which failed with 401 again and was reported
C4_Witness ==
    \E t \in Tasks :
        /\ task[t].pc = "done"
        /\ Triggered(task[t])
        /\ task[t].own = 0
        /\ task[t].awaited = 0
        /\ task[t].round = 2
        /\ task[t].forced = 1
        /\ task[t].out = OpFail(HttpClientError(401))

(***************************************************************************)
(* C5.  Once an ensureValidToken() call that started a refresh has         *)
(* completed, by success or by failure, the in-flight handle is unset: the *)
(* handle is set only while the call that started its refresh is still     *)
(* inside ensureValidToken, so a later call made while the token is        *)
(* expired starts a refresh of its own.                                    *)
(***************************************************************************)
C5_HandleClearedAfterRefresh ==
    /\ \A t \in Tasks :
          (task[t].own # 0 /\ task[t].ensure # "none") => tokenRefreshPromise # task[t].own
    /\ tokenRefreshPromise # 0 =>
          \E t \in Tasks : task[t].pc = "ensureOwn" /\ task[t].own = tokenRefreshPromise
    /\ \A t \in Tasks : task[t].pc = "ensureOwn" => tokenRefreshPromise = task[t].own

\* a refresh failed, its caller got the error, and a later call started a new exchange
C5_Witness ==
    \E t, u \in Tasks :
        /\ task[t].own # 0
        /\ task[t].ensure = "err"
        /\ task[u].own # 0
        /\ task[u].own # task[t].own
        /\ refresh[task[t].own].rt # NoToken
        /\ refresh[task[u].own].st = "exchanging"

(***************************************************************************)
(* C6.  In a client.withRetry call the operation is not invoked before     *)
(* ensureValidToken() has completed successfully; if ensureValidToken()    *)
(* throws, the operation is never invoked and the caller receives that     *)
(* error.                                                                  *)
(***************************************************************************)
C6_EnsureBeforeDispatch ==
    \A t \in Tasks :
        /\ (Invocations(task[t], rx[t]) > 0 \/ task[t].round > 0) => task[t].ensure = "ok"
        /\ task[t].ensure = "err" =>
              /\ task[t].pc = "done"
              /\ Invocations(task[t], rx[t]) = 0
              /\ task[t].out = OpFail(refresh[task[t].awaited].err)

\* a call that waited for a refresh which failed ended with the refresh's error
C6_Witness ==
    \E t \in Tasks :
        /\ task[t].ensure = "err"
        /\ task[t].pc = "done"
        /\ task[t].out = OpFail(PlainError("Token refresh failed"))
        /\ Invocations(task[t], rx[t]) = 0

(***************************************************************************)
(* Reading a trace.                                                        *)
(***************************************************************************)
\* the events of a trace with the given tag, in order
RECURSIVE Events(_, _)
Events(trace, tag) ==
    IF trace = <<>> THEN <<>>
    ELSE IF Head(trace)[1] = tag
         THEN <<Head(trace)>> \o Events(Tail(trace), tag)
         ELSE Events(Tail(trace), tag)

\* no call of the onRetry observer has thrown so far
ObserverSafeSoFar(trace) ==
    \A i \in 1..Len(trace) : trace[i][1] = "onRetry" => ~trace[i][5]

Finished(x) == x.rpc \in {"returned", "threw"}

(***************************************************************************)
(* C7.  withRetry invokes the operation exactly k times, k being the least *)
(* attempt index in 1..maxRetries+1 at which the operation succeeds or     *)
(* shouldRetry(error, k) is false, and maxRetries+1 if there is none; it   *)
(* returns the result, or rethrows the error, of attempt k.  (For a run in *)
(* which the onRetry observer does not throw, which is the caller contract *)
(* of the observer.)                                                       *)
(***************************************************************************)
\* attempt k, whose outcome is o, is one after which the loop must stop
StopsAt(c, o, k) ==
    \/ o.ok
    \/ ~shouldRetry(c.shouldRetry, o.err, k)
    \/ k = c.maxRetries + 1

C7_ExactlyKInvocations ==
    LET x == rx[1]
        outs == Events(x.trace, "fnSettled")
        k == Len(outs)
    IN (Finished(x) /\ ObserverSafeSoFar(x.trace)) =>
        /\ Count(x.trace, "fn") = k
        /\ k \in 1..(cfg.maxRetries + 1)
        /\ StopsAt(cfg, outs[k][2], k)
        /\ \A j \in 1..(k - 1) : ~StopsAt(cfg, outs[j][2], j)
        /\ x.out = outs[k][2]
        /\ (x.rpc = "returned") = outs[k][2].ok
        /\ (\A j \in 1..k : ~outs[j][2].ok) =>
              /\ (cfg.maxRetries = 2 /\ cfg.shouldRetry = "always") => k = 3
              /\ cfg.shouldRetry = "never" => k = 1
              /\ cfg.maxRetries = 0 => k = 1

\* an always-failing operation was invoked three times under maxRetries = 2 and an
\* always-true predicate, and the last error was rethrown
C7_Witness ==
    /\ rx[1].rpc = "threw"
    /\ cfg.maxRetries = 2
    /\ cfg.shouldRetry = "always"
    /\ cfg.onRetry = "safe"
    /\ Count(rx[1].trace, "fn") = 3

(***************************************************************************)
(* C8.  The delay that withRetry sleeps before retry k and passes to       *)
(* onRetry is min(initialDelay * exponentialBase^(k-1), maxDelay); with    *)
(* initialDelay 100, base 2 and maxDelay 250 the delays are 100, 200, 250, *)
(* 250.                                                                    *)
(***************************************************************************)
ExampleDelays == <<100, 200, 250, 250, 250, 250>>

C9_OnRetryBeforeEachRetry ==
    LET x == rx[1]
        tr == x.trace
        fns == {i \in 1..Len(tr) : tr[i][1] = "fn"}
        NthFn(i) == Cardinality({j \in fns : j <= i})
    IN ObserverSafeSoFar(tr) =>
        /\ tr # <<>> => tr[1][1] = "fn"
        /\ \A i \in fns : i > 1 =>
              \* the three events before the invocation: the failed attempt's shouldRetry,
              \* one onRetry, the sleep; the one before them is the failed attempt
              /\ i > 4
              /\ tr[i - 1][1] = "sleep"
              /\ tr[i - 2][1] = "onRetry"
              /\ tr[i - 3][1] = "shouldRetry"
              /\ tr[i - 4][1] = "fnSettled"
              /\ tr[i - 2][2] = tr[i - 4][2].err
              /\ tr[i - 2][3] = NthFn(i) - 1
              /\ tr[i - 2][4] = calculateDelay(NthFn(i) - 1, cfg.initialDelay,
                                               cfg.exponentialBase, cfg.maxDelay)
              /\ tr[i - 1][2] = tr[i - 2][4]
        /\ tr # <<>> =>
              Count(tr, "onRetry") = Count(tr, "fn") - (IF x.rpc = "sleeping" THEN 0 ELSE 1)

\* a second retry is about to sleep after onRetry(error of attempt 2, 2, delay)
C9_Witness ==
    /\ rx[1].rpc = "awaitFn"
    /\ cfg.onRetry = "safe"
    /\ Count(rx[1].trace, "fn") = 3
    /\ Count(rx[1].trace, "onRetry") = 2

(***************************************************************************)
(* C10.  An exception thrown by the onRetry observer is not caught by      *)
(* withRetry: it propagates to the caller at once, and after it neither    *)
(* shouldRetry nor the operation is called again.                          *)
(***************************************************************************)
C10_ObserverExceptionPropagates ==
    LET x == rx[1]
    IN \A i \in 1..Len(x.trace) :
          (x.trace[i][1] = "onRetry" /\ x.trace[i][5]) =>
              /\ i = Len(x.trace)
              /\ x.rpc = "threw"
              /\ x.out = OpFail(ObserverError)

(***************************************************************************)
(* C11.  Under the default retry policy an operation that fails with 401   *)
(* or 403 is not retried: the loop ends with that error at that attempt,   *)
(* so an operation that always fails so is invoked exactly once; a failure *)
(* with a 5xx status, a 429 status or a timeout is retried as long as      *)
(* fewer than maxRetries retries were made, and the loop ends with such an *)
(* error only after maxRetries + 1 invocations.                            *)
(***************************************************************************)
AuthRejected(e) == e.statusCode = 401 \/ e.statusCode = 403

TransientFailure(e) == e.statusCode >= 500 \/ e.statusCode = 429 \/ e.kind = "timeout"

C11_DefaultPolicy ==
    LET x == rx[1]
        outs == Events(x.trace, "fnSettled")
        k == Len(outs)
    IN cfg.shouldRetry = "default" =>
        \A j \in 1..k :
            LET o == outs[j][2]
            IN /\ (~o.ok /\ AuthRejected(o.err)) =>
                    /\ j = k
                    /\ Count(x.trace, "fn") = j
                    /\ x.rpc = "threw"
                    /\ x.out = o
                    /\ Count(x.trace, "sleep") = j - 1
               /\ (~o.ok /\ TransientFailure(o.err)) =>
                    IF j <= cfg.maxRetries
                    THEN /\ ~(j = k /\ Finished(x))
                         /\ Count(x.trace, "sleep") >= j
                    ELSE /\ j = k
                         /\ j = cfg.maxRetries + 1
                         /\ x.rpc = "threw"
                         /\ x.out = o

\* a 500 and a timeout were retried, the 401 that followed was not, with retries left
C11_Witness ==
    LET outs == Events(rx[1].trace, "fnSettled")
    IN /\ cfg.shouldRetry = "default"
       /\ cfg.maxRetries = 4
       /\ rx[1].rpc = "threw"
       /\ Len(outs) = 3
       /\ outs[1][2] = OpFail(HttpClientError(500))
       /\ outs[2][2] = OpFail(TimeoutError)
       /\ outs[3][2] = OpFail(HttpClientError(401))
       /\ Count(rx[1].trace, "fn") = 3

(***************************************************************************)
(* C12.  A network failure of a request that is not a timeout is an        *)
(* HttpClientError with shouldRetry = true, and the default retry policy   *)
(* retries it as it retries a timeout: the loop does not end with it while *)
(* fewer than maxRetries retries were made.                                *)
(***************************************************************************)
C12_NetworkErrorsRetried ==
    LET x == rx[1]
        outs == Events(x.trace, "fnSettled")
        k == Len(outs)
    IN cfg.shouldRetry = "default" =>
        \A j \in 1..k :
            (~outs[j][2].ok /\ outs[j][2].err.kind = "network") =>
                /\ outs[j][2].err.shouldRetry
                /\ j <= cfg.maxRetries => ~(j = k /\ Finished(x))

(***************************************************************************)
(* C13.  When an attempt fails with a 429 error that carries a retryAfter  *)
(* value, the next attempt does not start before retryAfter milliseconds   *)
(* have passed since the failure: the sleep between the two is at least    *)
(* retryAfter long.                                                        *)
(***************************************************************************)
C13_RetryAfterRespected ==
    LET tr == rx[1].trace
    IN \A i \in 1..Len(tr) :
          (tr[i][1] = "sleep" /\ i > 3 /\ tr[i - 3][1] = "fnSettled") =>
              LET failed == tr[i - 3][2].err
              IN (failed.statusCode = 429 /\ failed.retryAfter > 0) =>
                    tr[i][2] >= failed.retryAfter

(***************************************************************************)
(* C14.  If an operation fails with 401 while the credential has no        *)
(* refresh capability (an API key, an OAuth credential without client id   *)
(* and secret, an OAuth credential without a refresh token), no token      *)
(* exchange is attempted, the operation is not executed again, and the     *)
(* caller receives the 401 error of the operation.                         *)
(***************************************************************************)
C14_NoCapabilityKeeps401 ==
    \A t \in Tasks :
        LET tk == task[t]
        IN (tk.firstErr.statusCode = 401 /\ ~tk.capable) =>
              /\ tk.round = 1
              /\ tk.forced = 1 => refresh[tk.forcedId].rt = NoToken
              /\ tk.pc \in {"forcedWait", "done"}
              /\ tk.pc = "done" => tk.out = OpFail(tk.firstErr)

EnsureReturns(t) == task[t].ensure = "none" /\ task'[t].ensure = "ok"

C16_ValidAfterEnsure ==
    [][\A t \in Tasks : EnsureReturns(t) => ~isTokenExpired(auth', now')]_vars

(***************************************************************************)
(* C17.  After a successful token exchange the credential is a new OAuth   *)
(* credential: its access token and refresh token are those of the         *)
(* response, the previous refresh token being kept when the response has   *)
(* none, its expiresAt is now + expires_in * 1000, and its client          *)
(* configuration and callback are those of the previous credential;        *)
(* onTokenRefresh, if there is one, is then called exactly once, with the  *)
(* (accessToken, refreshToken, expiresAt) of the new credential.           *)
(***************************************************************************)
ExchangeSucceeds(id) ==
    /\ refresh[id].st = "exchanging"
    /\ refresh'[id].st # "exchanging"
    /\ refresh'[id].resp.ok

C17_NewCredentialAndCallback ==
    [][\A id \in RefreshIds :
          /\ ExchangeSucceeds(id) =>
                LET resp == refresh'[id].resp
                IN /\ auth'.type = "oauth"
                   /\ auth'.accessToken = IssuedAccessToken(id)
                   /\ auth'.refreshToken =
                         (IF resp.rotate THEN IssuedRefreshToken(id) ELSE auth.refreshToken)
                   /\ auth'.expiresAt = now + resp.expires_in * 1000
                   /\ auth'.hasClient = auth.hasClient
                   /\ auth'.onTokenRefresh = auth.onTokenRefresh
                   /\ refresh'[id].cb =
                         IF auth.onTokenRefresh = "none" THEN <<>>
                         ELSE <<[accessToken |-> auth'.accessToken,
                                 refreshToken |-> auth'.refreshToken,
                                 expiresAt |-> auth'.expiresAt]>>
          /\ ~ExchangeSucceeds(id) => refresh'[id].cb = refresh[id].cb]_vars

\* an exchange answered without a refresh token: the previous one was kept and the
\* callback got the triple of the credential now active
C17_Witness ==
    \E id \in RefreshIds :
        /\ refresh[id].st = "resolved"
        /\ ~refresh[id].resp.rotate
        /\ auth.onTokenRefresh = "returns"
        /\ auth.accessToken = IssuedAccessToken(id)
        /\ auth.refreshToken = InitialRefreshToken
        /\ refresh[id].cb = <<[accessToken |-> IssuedAccessToken(id),
                               refreshToken |-> InitialRefreshToken,
                               expiresAt |-> auth.expiresAt]>>

(***************************************************************************)
(* C18.  OAuthClient.isTokenExpired(expiresAt, bufferSeconds) is true      *)
(* exactly when now >= expiresAt - bufferSeconds * 1000, the buffer being  *)
(* 300 s by default and the boundary included; the client's own check      *)
(* gives the same answer, with a buffer of 300 s, for every OAuth          *)
(* credential that records an expiresAt value, and answers false when      *)
(* expiresAt is missing or the credential is an API key.                   *)
(***************************************************************************)
C18_ExpiryChecksAgree ==
    LET b == IF probe.bufferGiven THEN probe.bufferSeconds ELSE 300
    IN probe.asked =>
        /\ probe.byOAuthClient = (now >= probe.expiresAt - b * 1000)
        /\ (isOAuthAuth(auth) /\ probe.recorded) =>
              probe.byClient = (now >= probe.expiresAt - 300 * 1000)
        /\ (~isOAuthAuth(auth) \/ ~probe.recorded) => ~probe.byClient

(***************************************************************************)
(* C19: a call of loadPipelinesCache or findStageByName for a location     *)
(* whose cache entry is younger than 3,600,000 ms returns from that entry  *)
(* and fetches nothing; a call that finds no entry fetches exactly once    *)
(* and, when the fetch returns, leaves in the cache the mapping it         *)
(* returns, keyed by pipeline id; a call for the same location that starts *)
(* at once after that fetches nothing and returns the same mapping.        *)
(***************************************************************************)
CallStarts(c) == load[c].pc = "idle" /\ load'[c].pc # "idle" /\ load'[c].loc # NoLocation

FetchReturns(c) == load[c].pc = "fetching" /\ load'[c].pc = "returned"

ServedFrom(ld, pipelinesMap) ==
    /\ ld.pc = "returned"
    /\ ld.fetches = 0
    /\ ld.result = pipelinesMap
    /\ ld.args.kind = "find" =>
          ld.found = StageByName(pipelinesMap, ld.args.pipelineId, ld.args.stageName)

C19_FreshEntryServedWithoutFetch ==
    [][\A c \in Loads :
         /\ CallStarts(c) =>
               LET entry == pipelineCache[load'[c].loc]
               IN /\ (entry.present /\ now - entry.timestamp < 3600000) =>
                        /\ ServedFrom(load'[c], entry.pipelines)
                        /\ pipelineCache' = pipelineCache
                  /\ ~entry.present => load'[c].pc = "fetching" /\ load'[c].fetches = 1
                  /\ \A d \in Loads \ {c} :
                        (/\ load[d].pc = "returned" /\ load[d].fetches = 1
                         /\ load[d].loc = load'[c].loc
                         /\ entry = [present |-> TRUE, pipelines |-> load[d].result,
                                      timestamp |-> now])
                        => ServedFrom(load'[c], load[d].result)
         /\ FetchReturns(c) =>
               /\ load'[c].fetches = 1
               /\ \A k \in DOMAIN load'[c].result : load'[c].result[k].id = k
               /\ pipelineCache'[load[c].loc].present
               /\ pipelineCache'[load[c].loc].pipelines = load'[c].result
    ]_vars

\* the first call found the cache empty and fetched; the second, a findStageByName
\* for the same location, was served the same mapping without a fetch
C19_Witness ==
    /\ load[1].pc = "returned" /\ load[1].saw = "absent" /\ load[1].fetches = 1
    /\ load[2].pc = "returned" /\ load[2].saw = "fresh" /\ load[2].fetches = 0
    /\ load[2].args.kind = "find" /\ load[2].found.found
    /\ load[2].loc = load[1].loc
    /\ load[2].result = load[1].result
    /\ pipelineCache[load[1].loc].pipelines = load[1].result

(***************************************************************************)
(* C20: a call is served from a cache entry only while the entry's age is  *)
(* below 3,600,000 ms; a call that finds an entry whose age has reached    *)
(* 3,600,000 ms fetches again, and when its fetch returns the entry of the *)
(* location is exactly the new mapping with the time of the store.         *)
(***************************************************************************)
C20_EntryExpiresAtTtl ==
    [][\A c \in Loads :
         /\ (CallStarts(c) /\ pipelineCache[load'[c].loc].present) =>
               LET age == now - pipelineCache[load'[c].loc].timestamp
               IN /\ (load'[c].pc = "returned" \/ load'[c].fetches = 0) => age < 3600000
                  /\ age >= 3600000 => load'[c].pc = "fetching" /\ load'[c].fetches = 1
         /\ (FetchReturns(c) /\ pipelineCache[load[c].loc].present) =>
               pipelineCache'[load[c].loc] =
                   [present |-> TRUE, pipelines |-> load'[c].result, timestamp |-> now]
    ]_vars

\* a call found an entry exactly 3,600,000 ms old, fetched, and the entry now holds
\* the mapping it returned, which is not the first call's, and the time of the store
C20_Witness ==
    /\ load[1].pc = "returned" /\ load[1].saw = "absent"
    /\ load[2].pc = "returned" /\ load[2].saw = "stale" /\ load[2].fetches = 1
    /\ load[2].loc = load[1].loc
    /\ load[2].result # load[1].result
    /\ now = 3600000
    /\ pipelineCache[load[2].loc] =
          [present |-> TRUE, pipelines |-> load[2].result, timestamp |-> 3600000]

(***************************************************************************)
(* C21: clearPipelineCache(locationId) returns without throwing, whether   *)
(* or not the location has an entry, and leaves that location without an  *)
(* entry and every other location's entry as it was; clearPipelineCache()  *)
(* leaves no entry at all. A loadPipelinesCache that starts while the      *)
(* cleared location has no entry fetches; one for another location whose   *)
(* entry the clear left in place is served from it without a fetch.        *)
(***************************************************************************)
ClearReturns(arg) ==
    /\ cleared' = [called |-> TRUE, arg |-> arg, threw |-> FALSE]
    /\ \A c \in Loads : load'[c].pc = load[c].pc

C21_ClearRemovesExactlyTheKey ==
    [][/\ cleared'.threw = FALSE
       /\ \A loc \in Locations :
             ClearReturns(loc) =>
               /\ ~pipelineCache'[loc].present
               /\ \A other \in Locations \ {loc} : pipelineCache'[other] = pipelineCache[other]
       /\ ClearReturns(NoLocation) => \A loc \in Locations : ~pipelineCache'[loc].present
       /\ \A c \in Loads :
             (CallStarts(c) /\ cleared.called) =>
               /\ ((cleared.arg = load'[c].loc \/ cleared.arg = NoLocation)
                      /\ ~pipelineCache[load'[c].loc].present)
                    => load'[c].pc = "fetching" /\ load'[c].fetches = 1
               /\ (cleared.arg \in Locations \ {load'[c].loc}
                      /\ pipelineCache[load'[c].loc].present)
                    => ServedFrom(load'[c], pipelineCache[load'[c].loc].pipelines)
    ]_vars

\* the first call stored an entry for locA, clearPipelineCache("locA") removed it, and
\* the second call for locA, started after the clear, is fetching again
C21_Witness ==
    /\ load[1].pc = "returned" /\ load[1].loc = "locA" /\ load[1].fetches = 1
    /\ cleared = [called |-> TRUE, arg |-> "locA", threw |-> FALSE]
    /\ ~pipelineCache["locA"].present
    /\ load[2].pc = "fetching" /\ load[2].loc = "locA" /\ load[2].saw = "absent"
    /\ ~load[2].overtaken

(***************************************************************************)
(* C22: a findStageByName call that returned gave null when its pipeline   *)
(* id is not a key of the map it was given or when no stage of that        *)
(* pipeline has the given name, letter case ignored; otherwise it gave the *)
(* id and the stored name of the stage with the least position among the   *)
(* stages whose name equals the given one, letter case ignored.            *)
(***************************************************************************)
Matching(stages, stageName) ==
    {i \in 1..Len(stages) : ToLowerCase(stages[i].name) = ToLowerCase(stageName)}

C22_FirstStageIgnoringCase ==
    \A c \in Loads :
        (load[c].pc = "returned" /\ load[c].args.kind = "find") =>
            LET pipelinesMap == load[c].result
                pipelineId == load[c].args.pipelineId
            IN IF pipelineId \notin DOMAIN pipelinesMap
               THEN ~load[c].found.found
               ELSE LET stages == pipelinesMap[pipelineId].stages
                        hits == Matching(stages, load[c].args.stageName)
                    IN IF hits = {}
                       THEN ~load[c].found.found
                       ELSE \E i \in hits :
                              /\ \A j \in hits : i <= j
                              /\ load[c].found =
                                    [found |-> TRUE, id |-> stages[i].id, name |-> stages[i].name]

\* findStageByName(loc, "pA", "WON") got the second stage, "Won", which comes before
\* the stage written "WON"; another call got null for a pipeline without such a stage
C22_Witness ==
    /\ load[1].pc = "returned" /\ load[1].args = [kind |-> "find", pipelineId |-> "pA", stageName |-> "WON"]
    /\ load[1].result["pA"] = PipelineA
    /\ load[1].found = [found |-> TRUE, id |-> "s2", name |-> "Won"]
    /\ load[2].pc = "returned" /\ load[2].args.kind = "find"
    /\ "pA" \in DOMAIN load[2].result /\ load[2].args.pipelineId = "pA"
    /\ ~load[2].found.found

(***************************************************************************)
(* C28: a loadPipelinesCache fetch that was out when clearPipelineCache    *)
(* emptied its location does not put an entry for that location into the  *)
(* cache when it returns, so that a load started after the clear fetches.  *)
(***************************************************************************)
C28_ClearedStaysCleared ==
    [][\A c \in Loads :
         (FetchReturns(c) /\ load[c].overtaken) =>
            pipelineCache'[load[c].loc] = pipelineCache[load[c].loc]
    ]_vars

(***************************************************************************)
(* C23: the requests of one users.list call go to the four endpoints of    *)
(* REFERENCE.md in that order, each one sent only when the one before it   *)
(* has failed; the call returns the users of the first request that        *)
(* succeeds and sends nothing after it; when the location is known, it     *)
(* throws only after all four have failed, and throws the fourth's error.  *)
(***************************************************************************)
DocumentedOrder ==
    <<"/users/?locationId={locId}", "/users?locationId={locId}",
      "/locations/{locId}/users", "/locations/{locId}/users/">>

C23_EndpointFallbackOrder ==
    LET tr == userList.trace
        n == Len(tr)
    IN /\ n <= 2 * Len(DocumentedOrder)
       /\ \A k \in 1..n :
             /\ tr[k].endpoint = DocumentedOrder[(k + 1) \div 2]
             /\ tr[k].ev = IF k % 2 = 1 THEN "sent" ELSE "settled"
             /\ (tr[k].ev = "settled" /\ k < n) => ~tr[k].ok
       /\ userList.pc = "awaiting" <=> n % 2 = 1
       /\ userList.pc = "returned" =>
             n > 0 /\ tr[n].ok /\ userList.result = tr[n].users
       /\ (userList.pc = "threw" /\ userList.loc # NoLocation) =>
             /\ n = 2 * Len(DocumentedOrder)
             /\ ~tr[n].ok
             /\ userList.err = tr[n].err

\* all four endpoints failed, the first with 404 and the last with a timeout, and the
\* call threw the timeout
C23_Witness ==
    /\ userList.pc = "threw"
    /\ Len(userList.trace) = 8
    /\ userList.trace[2].err = HttpClientError(404)
    /\ userList.trace[8].err = TimeoutError
    /\ userList.err = TimeoutError

(***************************************************************************)
(* C24: whatever the logger and the audit logger do, a ContactsResource.get *)
(* call ends as it would with no-op sinks: it returns the contact of the   *)
(* response when the request succeeded, and throws the request's own error *)
(* when the request failed.                                                *)
(***************************************************************************)
C24_SinkFailureNeverAborts ==
    /\ contactGet.pc = "returned" =>
          contactGet.settled /\ contactGet.o.ok /\ contactGet.result = contactGet.o.contact
    /\ contactGet.pc = "threw" =>
          contactGet.settled /\ ~contactGet.o.ok /\ contactGet.err = contactGet.o.err


(***************************************************************************)
(* C25: every request attempt of a client.withRetry call (the first one,   *)
(* a retry after a sleep, the re-execution after a 401) carries the header *)
(* Authorization: Bearer <token> with the token of the credential that is  *)
(* active at that attempt, whether it came from the constructor, a refresh *)
(* or updateAuth; the header the HTTP client was built with never wins.    *)
(***************************************************************************)
Attempts(t) == Invocations(task'[t], rx'[t]) > Invocations(task[t], rx[t])

C25_AttemptCarriesActiveToken ==
    [][\A t \in Tasks :
          Attempts(t) => sent'[t].Authorization = <<"Bearer", getAccessToken(auth')>>]_vars

\* a re-execution after a 401 and a successful refresh went out with a token that is
\* not the one of the constructor
C25_Witness ==
    \E t \in Tasks :
        /\ task[t].round = 2
        /\ task[t].forcedEnd = "ok"
        /\ sent[t].Authorization[1] = "Bearer"
        /\ sent[t].Authorization[2] # InitialAccessToken

(***************************************************************************)
(* C27: a credential installed by updateAuth is not overwritten by a       *)
(* refresh that was in flight when updateAuth was called.  The refresh in  *)
(* flight is recognised by the refresh token it sent, which is not the one *)
(* of the installed credential: when its exchange settles, the credential  *)
(* stays the installed one.                                                *)
(***************************************************************************)
StartedBeforeInstall(id) ==
    /\ refresh[id].st = "exchanging"
    /\ auth \in InstalledAuths
    /\ refresh[id].rt # auth.refreshToken

C27_InstalledCredentialSurvivesRefresh ==
    [][\A id \in RefreshIds :
          (StartedBeforeInstall(id) /\ refresh'[id].st # "exchanging") => auth' = auth]_vars

(***************************************************************************)
(* C26: one client.withRetry call invokes the operation at most            *)
(* 2 * (maxRetries + 1) times, at most twice when no retry policy is       *)
(* configured; it sends at most two token exchanges, the one of the expiry *)
(* check before the operation and the one after a 401; and it never begins *)
(* a third round, whatever the operation and the token endpoint answer.    *)
(***************************************************************************)
Budget(c) == IF c.present THEN 2 * (c.maxRetries + 1) ELSE 2

\* the token exchanges sent by the refreshToken() calls task t made
Exchanges(t) ==
    Cardinality({id \in {task[t].own, task[t].forcedId} \ {0} : refresh[id].rt # NoToken})

C26_BoundedBudget ==
    \A t \in Tasks :
        /\ Invocations(task[t], rx[t]) <= Budget(cfg)
        /\ Exchanges(t) <= 2
        /\ task[t].round <= 2

\* a call under a retry policy that used its whole budget: two exchanges, two rounds,
\* 2 * (maxRetries + 1) invocations
C26_Witness ==
    \E t \in Tasks :
        /\ cfg.present
        /\ task[t].pc = "done"
        /\ task[t].round = 2
        /\ Exchanges(t) = 2
        /\ Invocations(task[t], rx[t]) = 2 * (cfg.maxRetries + 1)

(***************************************************************************)
(* C29: with an onFlush that returns a promise, the BufferAuditLogger      *)
(* neither loses nor duplicates an event: every event logged so far is, at *)
(* every moment, exactly once either in the buffer, in the batch of an     *)
(* onFlush call that has not been answered or whose failure has not been   *)
(* handled yet, or among the events delivered; in particular the events of *)
(* a failed flush are back in the buffer.                                  *)
(***************************************************************************)
Occurrences(events, e) == Cardinality({i \in DOMAIN events : events[i] = e})

\* the occurrences of event e in the batches that are neither delivered nor put back
InBatches(b, e) ==
    Cardinality({p \in FlushIds \X AuditEvents :
                    /\ b.flushes[p[1]].st \in {"pending", "catch"}
                    /\ p[2] \in DOMAIN b.flushes[p[1]].batch
                    /\ b.flushes[p[1]].batch[p[2]] = e})

Held(b, e) == Occurrences(b.buffer, e) + InBatches(b, e) + Occurrences(b.delivered, e)

C29_EveryEventOnce ==
    \A e \in AuditEvents :
        Held(bufferAuditLogger, e) = IF e <= bufferAuditLogger.logged THEN 1 ELSE 0

\* a flush failed, its events were put back, and a later flush delivered them
C29_Witness ==
    \E id \in FlushIds :
        LET f == bufferAuditLogger.flushes[id]
        IN /\ f.st = "done"
           /\ ~f.ok
           /\ Len(f.batch) > 0
           /\ \A i \in DOMAIN f.batch : Occurrences(bufferAuditLogger.delivered, f.batch[i]) = 1

(***************************************************************************)
(* C30: the BufferAuditLogger has at most one onFlush call in flight: a    *)
(* flush() called while another is in flight waits for it and starts no    *)
(* onFlush of its own; the marker flushPromise points at the one promise   *)
(* chain that is not finished, and is cleared when that chain ends, after  *)
(* a success and after a failure alike.                                    *)
(***************************************************************************)
Unfinished(b) == {id \in FlushIds : b.flushes[id].st \in {"pending", "catch", "finally"}}

====
